---- MODULE Spec2Model ----
(***************************************************************************)
(* Day-use revenue prediction engine and holiday classifier of the         *)
(* accommodation cost calculator (src/src/utils/prediction.js).            *)
(*                                                                         *)
(* Representation                                                          *)
(*   - a 'YYYY-MM-DD' string is the record [y, m, d] of its three fields;  *)
(*   - a JavaScript Date object is the record [t], t the instant in hours  *)
(*     since 1970-01-01T00:00Z; its local getters read the calendar fields *)
(*     of t + tz, tz the local UTC offset in hours;                        *)
(*   - a holiday table (the JSON object of one year) is the set of its     *)
(*     'YYYY-MM-DD' keys; holidayCache is the Map year -> table, its       *)
(*     DOMAIN the years for which Map.has(year) is true;                   *)
(*   - the basis strings are written in English:                           *)
(*       'データなし'                 "no data"                             *)
(*       '祝日の過去平均'             "holiday historical average"          *)
(*       '祝日（土曜日データで代用）' "holiday (substituted with Saturday   *)
(*                                    data)"                               *)
(*       '全体平均（曜日データなし）' "overall average (no weekday data)"   *)
(*       '<日..土>曜日の過去平均'     "<Sun..Sat> weekday historical        *)
(*                                    average"                             *)
(***************************************************************************)
EXTENDS Integers, Sequences, FiniteSets, TLC

VARIABLES
    tz,            \* local UTC offset of the browser, in hours
    holidayCache,  \* prediction.js:199  const holidayCache = new Map()
    calls,         \* year -> number of fetchHolidays(year) calls made
    inflight,      \* year -> number of fetchHolidays calls awaiting the network
    fetchCount,    \* year -> number of requests issued to the holiday source
    failures,      \* year -> number of fetchHolidays calls that ended in the catch
    lastFetch,     \* outcome of the fetchHolidays call that resolved last
    dayuseData,    \* argument of predictDayuseRevenue: the stored history
    targetDate,    \* argument of predictDayuseRevenue: a Date
    prediction,    \* value returned by the last predictDayuseRevenue call
    lastSync,      \* the last isHolidaySync call: its argument, lookup and result
    hotelSettings, \* localStorage 'hotel_settings': hotel -> year-month -> target
    dayuseStore,   \* localStorage 'dayuse_data': hotel -> array of records
    dailyInputs,   \* localStorage 'daily_input': hotel -> date -> saved fields
    lastMerge,     \* the last mergeDayuseData call: counts before and returned
    selectedHotelId, \* Dashboard prop: the hotel shown
    inputs,        \* Dashboard state: the four input fields
    pricing,       \* what the last Dashboard render derived
    stats,         \* value returned by the last getDayOfWeekStats call
    parsedData,    \* CSVUploader state: the rows parsed from the chosen file
    uploadError,   \* CSVUploader state: the error shown
    dash,          \* the mounted Dashboard: its state, effect and pending preload
    dateNow,       \* Date.now(), in milliseconds
    passwordHash,  \* localStorage 'app_password_hash'
    loginAttempts, \* localStorage 'login_attempts': { attempts, lockoutUntil }
    session,       \* localStorage 'session': { createdAt, expiresAt, hotelId }
    app,           \* App state: isLoading, isAuthenticated, currentPage
    login,         \* Login state: isFirstTime, isLocked, isLoading, the submission
    lastLogin      \* what the last submission of the login form did

\* The local stores.
storeVars == <<hotelSettings, dayuseStore, dailyInputs, lastMerge>>

\* The Dashboard.
dashVars == <<selectedHotelId, inputs, pricing>>

\* The reporting functions.
reportVars == <<stats>>

\* The CSV uploader.
importVars == <<parsedData, uploadError>>

\* The life of the mounted Dashboard.
lifeVars == <<dash>>

\* The clock, the credentials and session in local storage, App and Login.
authVars == <<dateNow, passwordHash, loginAttempts, session, app, login, lastLogin>>

\* The state outside the prediction engine and the holiday fetch.
appVars == <<lastSync, storeVars, dashVars, reportVars, importVars, lifeVars, authVars>>

vars == <<tz, holidayCache, calls, inflight, fetchCount, failures, lastFetch,
          dayuseData, targetDate, prediction, appVars>>

NoSync == [called |-> FALSE]
NoMerge == [called |-> FALSE]
NoPricing == [rendered |-> FALSE]
NoStats == [called |-> FALSE]
NoDash == [mounted |-> FALSE]
NoLogin == [mounted |-> FALSE]
NoLoginEvent == [event |-> "none"]

\* useState(false), useState('dashboard'), useState(true) of App.
AppInitial == [isAuthenticated |-> FALSE, currentPage |-> "dashboard", isLoading |-> TRUE]

\* Date.now() when the page is opened, 2024-01-01T12:00:00Z. Instants are
\* counted in milliseconds from 2023-12-31T00:00:00Z, which keeps them
\* within 32 bits.
StartNow == 36 * 60 * 60 * 1000

\* A browser that has never opened the application, before App is mounted.
AuthIdle ==
    /\ dateNow = StartNow
    /\ passwordHash = [null |-> TRUE]
    /\ loginAttempts = [null |-> TRUE]
    /\ session = [null |-> TRUE]
    /\ app = AppInitial
    /\ login = NoLogin
    /\ lastLogin = NoLoginEvent

\* An input field of the Dashboard: '' (empty), a text parseInt cannot read,
\* or a text parseInt reads as the integer n.
EmptyField == [kind |-> "empty", n |-> 0]
TextField == [kind |-> "text", n |-> 0]
NumField(n) == [kind |-> "num", n |-> n]

EmptyInputs ==
    [dayuseCount |-> EmptyField, dayuseAvgPrice |-> EmptyField,
     stayCount |-> EmptyField, stayAvgPrice |-> EmptyField]

\* Nothing but the prediction engine and the holiday fetch has run: empty
\* stores, the default hotel, empty input fields.
AppIdle ==
    /\ lastSync = NoSync
    /\ hotelSettings = <<>>
    /\ dayuseStore = <<>>
    /\ dailyInputs = <<>>
    /\ lastMerge = NoMerge
    /\ selectedHotelId = "hotel_a"
    /\ inputs = EmptyInputs
    /\ pricing = NoPricing
    /\ stats = NoStats
    /\ parsedData = [null |-> TRUE]
    /\ uploadError = ""
    /\ dash = NoDash
    /\ AuthIdle

-----------------------------------------------------------------------------
(* Bounds *)

MaxLen == 3     \* longest history array
MaxCalls == 3   \* most fetchHolidays calls made for one year

-----------------------------------------------------------------------------
(* Calendar: what new Date(string), getFullYear/getMonth/getDate/getDay do *)

DateStr(y, m, d) == [y |-> y, m |-> m, d |-> d]

\* Days from 1970-01-01 to the proleptic Gregorian date y-m-d.
DaysFromCivil(y, m, d) ==
    LET yy  == IF m <= 2 THEN y - 1 ELSE y
        era == yy \div 400
        yoe == yy - era * 400
        mp  == IF m > 2 THEN m - 3 ELSE m + 9
        doy == (153 * mp + 2) \div 5 + d - 1
        doe == yoe * 365 + yoe \div 4 - yoe \div 100 + doy
    IN  era * 146097 + doe - 719468

\* The Gregorian date of day number z (days since 1970-01-01).
CivilFromDays(z) ==
    LET zz  == z + 719468
        era == zz \div 146097
        doe == zz - era * 146097
        yoe == (doe - doe \div 1460 + doe \div 36524 - doe \div 146096) \div 365
        doy == doe - (365 * yoe + yoe \div 4 - yoe \div 100)
        mp  == (5 * doy + 2) \div 153
        d   == doy - (153 * mp + 2) \div 5 + 1
        m   == IF mp < 10 THEN mp + 3 ELSE mp - 9
        y   == yoe + era * 400 + (IF m <= 2 THEN 1 ELSE 0)
    IN  DateStr(y, m, d)

\* new Date('YYYY-MM-DD'): a date-only ISO string is read as UTC midnight.
NewDateFromString(s) == [t |-> DaysFromCivil(s.y, s.m, s.d) * 24]

\* typeof date === 'string' ? new Date(date) : date
ToDate(date) == IF "y" \in DOMAIN date THEN NewDateFromString(date) ELSE date

\* Day number of the local calendar day the instant falls on.
LocalDay(date, offset) == (date.t + offset) \div 24

\* Date.prototype.getDay(): 0 = Sunday .. 6 = Saturday, local time.
getDay(date, offset) == (LocalDay(date, offset) + 4) % 7

\* Date.prototype.getFullYear(), local time.
getFullYear(date, offset) == CivilFromDays(LocalDay(date, offset)).y

\* formatDate: local year, month and day, zero padded.
formatDate(date, offset) == CivilFromDays(LocalDay(date, offset))

\* Math.round(a / b) for b > 0: the nearest integer, halves rounded up.
MathRound(a, b) == (2 * a + b) \div (2 * b)

-----------------------------------------------------------------------------
(* Holiday classifier, synchronous part *)

\* isHolidaySync(date): cached data only, false when the year is not cached.
isHolidaySync(date, cache, offset) ==
    LET d       == ToDate(date)
        year    == getFullYear(d, offset)
        dateStr == formatDate(d, offset)
    IN  IF year \notin DOMAIN cache
        THEN FALSE
        ELSE dateStr \in cache[year]

-----------------------------------------------------------------------------
(* Prediction engine *)

dayNames == <<"Sun", "Mon", "Tue", "Wed", "Thu", "Fri", "Sat">>

\* The null that predictFromHolidayData returns when it has no holiday day.
Null == [null |-> TRUE]
IsNull(v) == "null" \in DOMAIN v

\* A history argument: an array of records, or a missing (null) one.
ArrayOf(items) == [tag |-> "array", items |-> items]
NullData == [tag |-> "null"]

\* Index of the entry of dailyTotals keyed dateStr, 0 when there is none.
IndexOfKey(dailyTotals, dateStr) ==
    IF \E i \in 1..Len(dailyTotals) : dailyTotals[i].key = dateStr
    THEN CHOOSE i \in 1..Len(dailyTotals) : dailyTotals[i].key = dateStr
    ELSE 0

\* groupByDateStep with the revenue assigned instead of accumulated.
groupByDateStep_Overwrite(dailyTotals, item) ==
    LET dateStr == item.date
        i       == IndexOfKey(dailyTotals, dateStr)
        withKey == IF i = 0
                   THEN Append(dailyTotals, [key |-> dateStr, count |-> 0, revenue |-> 0])
                   ELSE dailyTotals
        j       == IF i = 0 THEN Len(withKey) ELSE i
    IN  [withKey EXCEPT ![j].count = @ + 1, ![j].revenue = item.price]

\* The forEach body of groupByDate, applied to one item.  The prices of the
\* model are positive integers, for which item.price || 0 is item.price.
groupByDateStep(dailyTotals, item) ==
    LET dateStr == item.date
        i       == IndexOfKey(dailyTotals, dateStr)
        withKey == IF i = 0
                   THEN Append(dailyTotals, [key |-> dateStr, count |-> 0, revenue |-> 0])
                   ELSE dailyTotals
        j       == IF i = 0 THEN Len(withKey) ELSE i
    IN  [withKey EXCEPT ![j].count = @ + 1, ![j].revenue = @ + item.price]

RECURSIVE groupByDateFrom(_, _, _)
groupByDateFrom(items, n, dailyTotals) ==
    IF n > Len(items)
    THEN dailyTotals
    ELSE groupByDateFrom(items, n + 1, groupByDateStep(dailyTotals, items[n]))

\* groupByDate: the entries { dateStr: {count, revenue} } in insertion order.
groupByDate(items) == groupByDateFrom(items, 1, <<>>)

\* dailyDataArray.reduce((sum, d) => sum + d.count, 0)
RECURSIVE SumCount(_)
SumCount(days) == IF days = <<>> THEN 0 ELSE Head(days).count + SumCount(Tail(days))

\* dailyDataArray.reduce((sum, d) => sum + d.revenue, 0)
RECURSIVE SumRevenue(_)
SumRevenue(days) == IF days = <<>> THEN 0 ELSE Head(days).revenue + SumRevenue(Tail(days))

\* calculateAverage with the total count in place of the mean count per day.
calculateAverage_TotalCount(dailyDataArray, basis) ==
    IF Len(dailyDataArray) = 0
    THEN [count |-> 0, revenue |-> 0, avgPrice |-> 0, hasData |-> FALSE, basis |-> basis]
    ELSE LET totalCount   == SumCount(dailyDataArray)
             totalRevenue == SumRevenue(dailyDataArray)
             numDays      == Len(dailyDataArray)
             avgCount     == totalCount
             avgRevenue   == MathRound(totalRevenue, numDays)
             avgPrice     == IF avgCount > 0 THEN MathRound(avgRevenue, avgCount) ELSE 0
         IN  [count |-> avgCount, revenue |-> avgRevenue, avgPrice |-> avgPrice,
              hasData |-> TRUE, basis |-> basis]

\* calculateAverage with avgPrice taken from the totals, not from the means.
calculateAverage_PriceFromTotals(dailyDataArray, basis) ==
    IF Len(dailyDataArray) = 0
    THEN [count |-> 0, revenue |-> 0, avgPrice |-> 0, hasData |-> FALSE, basis |-> basis]
    ELSE LET totalCount   == SumCount(dailyDataArray)
             totalRevenue == SumRevenue(dailyDataArray)
             numDays      == Len(dailyDataArray)
             avgCount     == MathRound(totalCount, numDays)
             avgRevenue   == MathRound(totalRevenue, numDays)
             avgPrice     == IF avgCount > 0 THEN MathRound(totalRevenue, totalCount) ELSE 0
         IN  [count |-> avgCount, revenue |-> avgRevenue, avgPrice |-> avgPrice,
              hasData |-> TRUE, basis |-> basis]

calculateAverage(dailyDataArray, basis) ==
    IF Len(dailyDataArray) = 0
    THEN [count |-> 0, revenue |-> 0, avgPrice |-> 0, hasData |-> FALSE, basis |-> basis]
    ELSE LET totalCount   == SumCount(dailyDataArray)
             totalRevenue == SumRevenue(dailyDataArray)
             numDays      == Len(dailyDataArray)
             avgCount     == MathRound(totalCount, numDays)
             avgRevenue   == MathRound(totalRevenue, numDays)
             avgPrice     == IF avgCount > 0 THEN MathRound(avgRevenue, avgCount) ELSE 0
         IN  [count |-> avgCount, revenue |-> avgRevenue, avgPrice |-> avgPrice,
              hasData |-> TRUE, basis |-> basis]

\* holidayDaysOf without the filter: every day taken for a holiday.
holidayDaysOf_NoFilter(dailyTotals, cache, offset) == dailyTotals

\* The entries of dailyTotals whose date string is a holiday of the cache.
holidayDaysOf(dailyTotals, cache, offset) ==
    SelectSeq(dailyTotals, LAMBDA e : isHolidaySync(e.key, cache, offset))

predictFromHolidayData(items, cache, offset) ==
    LET dailyTotals == groupByDate(items)
        holidayDays == holidayDaysOf(dailyTotals, cache, offset)
    IN  IF Len(holidayDays) = 0
        THEN Null
        ELSE calculateAverage(holidayDays, "holiday historical average")

\* The entries of dailyTotals for which new Date(dateStr).getDay() === dayOfWeek.
sameDayDataOf(dailyTotals, dayOfWeek, offset) ==
    SelectSeq(dailyTotals,
              LAMBDA e : getDay(NewDateFromString(e.key), offset) = dayOfWeek)

\* predictFromDayOfWeek without the fallback to the overall average.
predictFromDayOfWeek_NoFallback(items, dayOfWeek, basisOverride, offset) ==
    LET dailyTotals == groupByDate(items)
        sameDayData == sameDayDataOf(dailyTotals, dayOfWeek, offset)
    IN  calculateAverage(sameDayData,
            IF IsNull(basisOverride)
            THEN dayNames[dayOfWeek + 1] \o " weekday historical average"
            ELSE basisOverride.text)

predictFromDayOfWeek(items, dayOfWeek, basisOverride, offset) ==
    LET dailyTotals == groupByDate(items)
        sameDayData == sameDayDataOf(dailyTotals, dayOfWeek, offset)
    IN  IF Len(sameDayData) = 0
        THEN calculateAverage(dailyTotals, "overall average (no weekday data)")
        ELSE calculateAverage(sameDayData,
                 IF IsNull(basisOverride)
                 THEN dayNames[dayOfWeek + 1] \o " weekday historical average"
                 ELSE basisOverride.text)

\* predictDayuseRevenue whose guard tests !dayuseData only, not its length.
predictDayuseRevenue_NoLengthGuard(data, date, cache, offset) ==
    IF data.tag = "null"
    THEN [count |-> 0, revenue |-> 0, avgPrice |-> 0, hasData |-> FALSE,
          basis |-> "no data"]
    ELSE LET dayOfWeek         == getDay(date, offset)
             isTargetHoliday   == isHolidaySync(date, cache, offset)
             holidayPrediction == predictFromHolidayData(data.items, cache, offset)
         IN  IF isTargetHoliday
             THEN IF ~IsNull(holidayPrediction)
                  THEN holidayPrediction
                  ELSE predictFromDayOfWeek(data.items, 6,
                           [text |-> "holiday (substituted with Saturday data)"], offset)
             ELSE predictFromDayOfWeek(data.items, dayOfWeek, Null, offset)

predictDayuseRevenue(data, date, cache, offset) ==
    IF data.tag = "null" \/ Len(data.items) = 0
    THEN [count |-> 0, revenue |-> 0, avgPrice |-> 0, hasData |-> FALSE,
          basis |-> "no data"]
    ELSE LET dayOfWeek         == getDay(date, offset)
             isTargetHoliday   == isHolidaySync(date, cache, offset)
             holidayPrediction == predictFromHolidayData(data.items, cache, offset)
         IN  IF isTargetHoliday
             THEN IF ~IsNull(holidayPrediction)
                  THEN holidayPrediction
                  ELSE predictFromDayOfWeek(data.items, 6,
                           [text |-> "holiday (substituted with Saturday data)"], offset)
             ELSE predictFromDayOfWeek(data.items, dayOfWeek, Null, offset)

-----------------------------------------------------------------------------
(* Inputs *)

\* Local UTC offsets: west of Greenwich, Greenwich, Japan.
TZOffsets == {0 - 5, 0, 9}

Years == {2023, 2024}

Sat2023Feb11 == DateStr(2023, 2, 11)   \* Saturday, National Foundation Day
Mon2024Jan01 == DateStr(2024, 1, 1)    \* Monday, New Year's Day
Mon2024Jan08 == DateStr(2024, 1, 8)    \* Monday, Coming of Age Day
Mon2024Jan15 == DateStr(2024, 1, 15)   \* Monday

HistoryDates == {Sat2023Feb11, Mon2024Jan01, Mon2024Jan08, Mon2024Jan15}
Prices == {5000, 7000}

\* The documents the holiday source may answer with, per year.
HolidayDocs(year) ==
    IF year = 2023
    THEN {{}, {Sat2023Feb11}}
    ELSE {{}, {Mon2024Jan01, Mon2024Jan08}, {Mon2024Jan01, DateStr(2024, 1, 14)}}

\* A Date at hour h (UTC) of the day y-m-d.
DateAt(y, m, d, h) == [t |-> DaysFromCivil(y, m, d) * 24 + h]

Jan22Noon == DateAt(2024, 1, 22, 12)   \* Monday 22 January in every offset
Jan01Noon == DateAt(2024, 1, 1, 12)    \* Monday  1 January in every offset
Jan21Late == DateAt(2024, 1, 21, 20)   \* Sunday 21, or Monday 22 in Japan

TargetDates == {Jan22Noon, Jan01Noon, Jan21Late}

\* The arrays of at most MaxLen records {id, date, price}, ids 1..n.
Histories ==
    UNION { { [i \in 1..n |-> [id |-> i, date |-> f[i][1], price |-> f[i][2]]] :
              f \in [1..n -> HistoryDates \X Prices] } : n \in 0..MaxLen }

HistoryInputs == {NullData} \cup {ArrayOf(h) : h \in Histories}

\* The states of the Map after any number of successful loads.
CacheStates ==
    UNION { { c \in [ys -> UNION {HolidayDocs(y) : y \in Years}] :
              \A y \in ys : c[y] \in HolidayDocs(y) } : ys \in SUBSET Years }

NoPrediction == [called |-> FALSE]
HasPrediction == "basis" \in DOMAIN prediction

NoFetch == [year |-> 0]

-----------------------------------------------------------------------------
(* Prediction: the inputs are drawn at the start, Predict applies the       *)
(* function to them.                                                        *)

Init ==
    /\ tz \in TZOffsets
    /\ holidayCache \in CacheStates
    /\ calls = [y \in Years |-> IF y \in DOMAIN holidayCache THEN 1 ELSE 0]
    /\ inflight = [y \in Years |-> 0]
    /\ fetchCount = calls
    /\ failures = [y \in Years |-> 0]
    /\ lastFetch = NoFetch
    /\ dayuseData \in HistoryInputs
    /\ targetDate \in TargetDates
    /\ prediction = NoPrediction
    /\ AppIdle

\* A call predictDayuseRevenue(dayuseData, targetDate).
Predict ==
    /\ prediction' = predictDayuseRevenue(dayuseData, targetDate, holidayCache, tz)
    /\ UNCHANGED <<tz, holidayCache, calls, inflight, fetchCount, failures,
                   lastFetch, dayuseData, targetDate, appVars>>

Next == Predict

Spec == Init /\ [][Next]_vars

-----------------------------------------------------------------------------
(* What the properties below are stated with: the history read directly,   *)
(* without the engine's own grouping, filtering and rounding.               *)

NonEmptyHistory == dayuseData.tag = "array" /\ Len(dayuseData.items) > 0

\* The date strings that occur in the history.
DatesIn(items) == {items[i].date : i \in 1..Len(items)}

\* The positions of the records dated on one of the dates of S.
RecordsOn(items, S) == {i \in 1..Len(items) : items[i].date \in S}

RECURSIVE SumPrices(_, _)
SumPrices(items, I) ==
    IF I = {}
    THEN 0
    ELSE LET i == CHOOSE k \in I : TRUE
         IN  items[i].price + SumPrices(items, I \ {i})

\* p is a / b rounded to the nearest integer, a half rounded up (b > 0).
IsRounded(p, a, b) == 2 * p * b - b <= 2 * a /\ 2 * a < 2 * p * b + b

\* res carries the rounded means, per day of S, of the number of records and
\* of the summed prices of the days of S.
IsAverageOver(res, items, S) ==
    /\ IsRounded(res.count, Cardinality(RecordsOn(items, S)), Cardinality(S))
    /\ IsRounded(res.revenue, SumPrices(items, RecordsOn(items, S)), Cardinality(S))

\* The weekday of the calendar date a 'YYYY-MM-DD' string names, 0 = Sunday.
CalendarWeekday(s) == (DaysFromCivil(s.y, s.m, s.d) + 4) % 7

\* The dates of the history that the synchronous classifier calls holidays.
HolidayDates ==
    {s \in DatesIn(dayuseData.items) : isHolidaySync(s, holidayCache, tz)}

\* The dates of the history that fall on weekday w.
WeekdayDates(w) == {s \in DatesIn(dayuseData.items) : CalendarWeekday(s) = w}

TargetIsHoliday == isHolidaySync(targetDate, holidayCache, tz)

\* The weekday of the target's local calendar day.
TargetWeekday == getDay(targetDate, tz)

-----------------------------------------------------------------------------
(* C1 *)

C1_Scenario ==
    /\ dayuseData = ArrayOf(<<[id |-> 1, date |-> Mon2024Jan08, price |-> 5000],
                              [id |-> 2, date |-> Mon2024Jan15, price |-> 7000]>>)
    /\ targetDate = Jan22Noon
    /\ ~TargetIsHoliday

\* C1 as the spec states it: for the two Monday records 2024-01-08 (5000) and
\* 2024-01-15 (7000) and the non-holiday Monday target 2024-01-22 the
\* prediction is count 2, revenue 6000, avgPrice 3000, hasData, Monday basis.
C1_AsStated ==
    (HasPrediction /\ C1_Scenario) =>
        prediction = [count |-> 2, revenue |-> 6000, avgPrice |-> 3000,
                      hasData |-> TRUE, basis |-> "Mon weekday historical average"]

\* C1 amended: in that scenario the prediction is count 1 (the mean of the two
\* days' counts), revenue 6000, avgPrice 6000, hasData; the basis is the
\* Monday weekday average where the local UTC offset is >= 0, and the overall
\* average west of Greenwich, where both date strings are read as Sundays.
C1_ScenarioResult ==
    (HasPrediction /\ C1_Scenario) =>
        prediction = [count |-> 1, revenue |-> 6000, avgPrice |-> 6000,
                      hasData |-> TRUE,
                      basis |-> IF tz >= 0
                                THEN "Mon weekday historical average"
                                ELSE "overall average (no weekday data)"]

C1_Witness == HasPrediction /\ C1_Scenario /\ tz = 9

-----------------------------------------------------------------------------
(* C2 *)

\* C2: for an empty or missing history, whatever the target date and the
\* cache, the prediction is exactly count 0, revenue 0, avgPrice 0,
\* hasData false, basis "no data".
C2_EmptyHistoryNoData ==
    (HasPrediction /\ ~NonEmptyHistory) =>
        prediction = [count |-> 0, revenue |-> 0, avgPrice |-> 0,
                      hasData |-> FALSE, basis |-> "no data"]

C2_Witness ==
    /\ HasPrediction
    /\ dayuseData = ArrayOf(<<>>)
    /\ TargetIsHoliday

-----------------------------------------------------------------------------
(* C3 *)

\* C3: for every non-empty history, target date and cache, the prediction
\* has hasData = true, whichever branch produced it.
C3_NonEmptyHasData ==
    (HasPrediction /\ NonEmptyHistory) => prediction.hasData = TRUE

\* A holiday target whose history holds neither a holiday nor a Saturday:
\* the last fallback of the chain.
C3_Witness ==
    /\ HasPrediction /\ NonEmptyHistory
    /\ TargetIsHoliday
    /\ HolidayDates = {}
    /\ prediction.basis = "overall average (no weekday data)"

-----------------------------------------------------------------------------
(* C4 *)

\* C4: every returned prediction has avgPrice = round(revenue / count) when
\* count > 0 and avgPrice = 0 when count = 0.
C4_AvgPriceRounded ==
    HasPrediction =>
        IF prediction.count > 0
        THEN IsRounded(prediction.avgPrice, prediction.revenue, prediction.count)
        ELSE prediction.avgPrice = 0

\* A result whose count is above 1 and whose revenue / count is no integer.
C4_Witness ==
    /\ HasPrediction
    /\ prediction.count > 1
    /\ prediction.avgPrice * prediction.count # prediction.revenue

-----------------------------------------------------------------------------
(* C5 *)

\* C5: when the target is classified a holiday and at least one aggregated
\* day of the history is classified a holiday by the same cache, the
\* prediction is the rounded mean of count and revenue over exactly the
\* holiday-classified days, with the holiday basis.
C5_HolidayAverage ==
    (HasPrediction /\ NonEmptyHistory /\ TargetIsHoliday /\ HolidayDates # {}) =>
        /\ IsAverageOver(prediction, dayuseData.items, HolidayDates)
        /\ prediction.basis = "holiday historical average"

\* A holiday day and a plain day of different totals are both in the history.
C5_Witness ==
    /\ HasPrediction /\ NonEmptyHistory /\ TargetIsHoliday
    /\ HolidayDates # {}
    /\ HolidayDates # DatesIn(dayuseData.items)
    /\ ~IsAverageOver(prediction, dayuseData.items, DatesIn(dayuseData.items))

-----------------------------------------------------------------------------
(* C6 *)

\* C6 as the spec states it: when the target is classified a holiday, no
\* aggregated day is classified a holiday and at least one day of the history
\* is a Saturday, the prediction is the average over exactly the Saturdays,
\* with the Saturday-substitution basis.
C6_AsStated ==
    (HasPrediction /\ NonEmptyHistory /\ TargetIsHoliday /\ HolidayDates = {}
       /\ WeekdayDates(6) # {}) =>
        /\ IsAverageOver(prediction, dayuseData.items, WeekdayDates(6))
        /\ prediction.basis = "holiday (substituted with Saturday data)"

\* The same where date strings are not shifted (local UTC offset >= 0).
C6_EastOfGreenwich == tz >= 0 => C6_AsStated

-----------------------------------------------------------------------------
(* C7 *)

\* C7 as the spec states it: when the target is not classified a holiday and
\* at least one aggregated day has the target's weekday, the prediction is
\* the rounded mean over exactly the days of that weekday, with the
\* "<weekday> weekday historical average" basis.
C7_AsStated ==
    (HasPrediction /\ NonEmptyHistory /\ ~TargetIsHoliday
       /\ WeekdayDates(TargetWeekday) # {}) =>
        /\ IsAverageOver(prediction, dayuseData.items, WeekdayDates(TargetWeekday))
        /\ prediction.basis =
               dayNames[TargetWeekday + 1] \o " weekday historical average"

\* The same where date strings are not shifted (local UTC offset >= 0).
C7_EastOfGreenwich == tz >= 0 => C7_AsStated

-----------------------------------------------------------------------------
(* C8 *)

\* C8 as the spec states it: when the target is not a holiday, the history is
\* not empty and no aggregated day has the target's weekday, the prediction
\* is the average over all aggregated days, with the overall-average basis.
C8_AsStated ==
    (HasPrediction /\ NonEmptyHistory /\ ~TargetIsHoliday
       /\ WeekdayDates(TargetWeekday) = {}) =>
        /\ IsAverageOver(prediction, dayuseData.items, DatesIn(dayuseData.items))
        /\ prediction.basis = "overall average (no weekday data)"

\* The same where date strings are not shifted (local UTC offset >= 0).
C8_EastOfGreenwich == tz >= 0 => C8_AsStated

-----------------------------------------------------------------------------
(* C9 *)

\* C9: the map built by groupByDate has, for each date of the history,
\* exactly one entry, whose count is the number of records of that date and
\* whose revenue is the sum of their prices; it has no other entry and no
\* entry of count < 1.
C9_DailyAggregates ==
    NonEmptyHistory =>
        LET items       == dayuseData.items
            dailyTotals == groupByDate(items)
        IN  /\ \A s \in DatesIn(items) :
                  \E i \in 1..Len(dailyTotals) :
                      /\ dailyTotals[i].key = s
                      /\ dailyTotals[i].count = Cardinality(RecordsOn(items, {s}))
                      /\ dailyTotals[i].revenue = SumPrices(items, RecordsOn(items, {s}))
                      /\ \A j \in 1..Len(dailyTotals) :
                            dailyTotals[j].key = s => j = i
            /\ \A i \in 1..Len(dailyTotals) :
                  /\ dailyTotals[i].key \in DatesIn(items)
                  /\ dailyTotals[i].count >= 1

\* Two records of one date around a record of another date.
C9_Witness ==
    /\ HasPrediction /\ NonEmptyHistory
    /\ Len(dayuseData.items) = 3
    /\ dayuseData.items[1].date = dayuseData.items[3].date
    /\ dayuseData.items[1].date # dayuseData.items[2].date
    /\ dayuseData.items[1].price # dayuseData.items[3].price

-----------------------------------------------------------------------------
(* Holiday classifier, asynchronous part: fetchHolidays(year).  A call runs *)
(* to its first await in one step (FetchHolidaysCall); the network answers  *)
(* each outstanding request in a later step, with a document the call       *)
(* caches (FetchHolidaysOk) or with a failure, a non-OK status or an        *)
(* unparsable body, all of which end in the catch (FetchHolidaysError).     *)
(* preloadHolidays and initializePrediction only await fetchHolidays.       *)

\* holidayCache.set(year, holidays)
CacheSet(cache, year, holidays) ==
    [y \in DOMAIN cache \cup {year} |-> IF y = year THEN holidays ELSE cache[y]]

\* What a resolved fetchHolidays call returned, and from where.
Returned(year, holidays, from) == [year |-> year, result |-> holidays, from |-> from]

\* fetchHolidays(year) up to its first await: the cache check, else the request.
FetchHolidaysCall(year) ==
    /\ calls[year] < MaxCalls
    /\ calls' = [calls EXCEPT ![year] = @ + 1]
    /\ IF year \in DOMAIN holidayCache
       THEN /\ lastFetch' = Returned(year, holidayCache[year], "cache")
            /\ UNCHANGED <<inflight, fetchCount>>
       ELSE /\ inflight' = [inflight EXCEPT ![year] = @ + 1]
            /\ fetchCount' = [fetchCount EXCEPT ![year] = @ + 1]
            /\ UNCHANGED lastFetch
    /\ UNCHANGED <<tz, holidayCache, failures, dayuseData, targetDate, prediction,
                   appVars>>

\* The response is OK and parses: the document is cached and returned.
FetchHolidaysOk(year, holidays) ==
    /\ inflight[year] > 0
    /\ inflight' = [inflight EXCEPT ![year] = @ - 1]
    /\ holidayCache' = CacheSet(holidayCache, year, holidays)
    /\ lastFetch' = Returned(year, holidays, "network")
    /\ UNCHANGED <<tz, calls, fetchCount, failures, dayuseData, targetDate, prediction,
                   appVars>>

\* FetchHolidaysError that also caches the empty object it returns.
FetchHolidaysError_CachesEmpty(year) ==
    /\ inflight[year] > 0
    /\ inflight' = [inflight EXCEPT ![year] = @ - 1]
    /\ failures' = [failures EXCEPT ![year] = @ + 1]
    /\ holidayCache' = CacheSet(holidayCache, year, {})
    /\ lastFetch' = Returned(year, {}, "error")
    /\ UNCHANGED <<tz, calls, fetchCount, dayuseData, targetDate, prediction, appVars>>

\* FetchHolidaysError without the try/catch: the caller's promise rejects.
FetchHolidaysError_Rejects(year) ==
    /\ inflight[year] > 0
    /\ inflight' = [inflight EXCEPT ![year] = @ - 1]
    /\ failures' = [failures EXCEPT ![year] = @ + 1]
    /\ lastFetch' = Returned(year, {}, "rejected")
    /\ UNCHANGED <<tz, holidayCache, calls, fetchCount, dayuseData, targetDate,
                   prediction, appVars>>

\* The catch: the error is logged and an empty object returned.
FetchHolidaysError(year) ==
    /\ inflight[year] > 0
    /\ inflight' = [inflight EXCEPT ![year] = @ - 1]
    /\ failures' = [failures EXCEPT ![year] = @ + 1]
    /\ lastFetch' = Returned(year, {}, "error")
    /\ UNCHANGED <<tz, holidayCache, calls, fetchCount, dayuseData, targetDate,
                   prediction, appVars>>

\* The history and the target the predictions between the loads are made for:
\* New Year's Day, with a record of that day and one of a Saturday of 2023.
FetchHistory ==
    ArrayOf(<<[id |-> 1, date |-> Mon2024Jan01, price |-> 5000],
              [id |-> 2, date |-> Sat2023Feb11, price |-> 7000]>>)

\* The module as loaded: nothing cached, nothing requested.
InitFetch ==
    /\ tz \in TZOffsets
    /\ holidayCache = <<>>
    /\ calls = [y \in Years |-> 0]
    /\ inflight = [y \in Years |-> 0]
    /\ fetchCount = [y \in Years |-> 0]
    /\ failures = [y \in Years |-> 0]
    /\ lastFetch = NoFetch
    /\ dayuseData = FetchHistory
    /\ targetDate = Jan01Noon
    /\ prediction = NoPrediction
    /\ AppIdle

NextFetch ==
    \/ \E year \in Years : FetchHolidaysCall(year)
    \/ \E year \in Years : \E holidays \in HolidayDocs(year) : FetchHolidaysOk(year, holidays)
    \/ \E year \in Years : FetchHolidaysError(year)
    \/ Predict

SpecFetch == InitFetch /\ [][NextFetch]_vars

-----------------------------------------------------------------------------
(* C10 *)

\* C10 as the spec states it: once a fetchHolidays(year) call has ended in a
\* failure, a table is cached for that year.
C10_AsStated ==
    \A y \in Years : failures[y] > 0 => y \in DOMAIN holidayCache

\* C10 amended: a fetchHolidays(year) call that ends in a failure returns an
\* empty table and leaves the cache as it was, caching nothing; so a later
\* fetchHolidays(year) call made while no table is cached for the year issues
\* another request (the failed fetch is retried), and only a call that finds
\* a table cached returns it without a request.
C10_FailureNotCached ==
    [][\A y \in Years :
          /\ failures'[y] > failures[y] =>
                /\ holidayCache' = holidayCache
                /\ lastFetch' = Returned(y, {}, "error")
          /\ (calls'[y] > calls[y] /\ failures[y] > 0) =>
                IF y \in DOMAIN holidayCache
                THEN /\ fetchCount'[y] = fetchCount[y]
                     /\ lastFetch' = Returned(y, holidayCache[y], "cache")
                ELSE fetchCount'[y] = fetchCount[y] + 1]_vars

\* Every request of the year has failed, and there was more than one: the
\* year is still not cached.
C10_Witness ==
    \E y \in Years :
        /\ failures[y] >= 2
        /\ failures[y] = fetchCount[y]
        /\ y \notin DOMAIN holidayCache
        /\ lastFetch = Returned(y, {}, "error")

-----------------------------------------------------------------------------
(* C11 *)

\* C11 as the spec states it: in every interleaving of fetchHolidays calls
\* (preloadHolidays, initializePrediction, isHoliday and getHolidayName only
\* await fetchHolidays), also of calls started while an earlier fetch of the
\* year is pending, the holiday source is asked at most once per year, and a
\* table once cached for a year is never replaced.
C11_AsStated ==
    [][\A y \in Years :
          /\ fetchCount'[y] <= 1
          /\ y \in DOMAIN holidayCache =>
                /\ y \in DOMAIN holidayCache'
                /\ holidayCache'[y] = holidayCache[y]]_vars

\* The part of it that the cache check does give: a call that finds the year
\* cached asks nothing and the cache keeps every year it holds.
C11_CachedYearNotAsked ==
    [][\A y \in Years :
          /\ (calls'[y] > calls[y] /\ y \in DOMAIN holidayCache) =>
                fetchCount'[y] = fetchCount[y]
          /\ y \in DOMAIN holidayCache => y \in DOMAIN holidayCache']_vars

-----------------------------------------------------------------------------
(* Synchronous classification on its own: the cache is any state the loads  *)
(* can leave it in, IsHolidaySyncCall is one call isHolidaySync(date) with  *)
(* a Date or a 'YYYY-MM-DD' string, as predictDayuseRevenue makes them.     *)

SyncArguments == HistoryDates \cup TargetDates

InitClassify ==
    /\ tz \in TZOffsets
    /\ holidayCache \in CacheStates
    /\ calls = [y \in Years |-> IF y \in DOMAIN holidayCache THEN 1 ELSE 0]
    /\ inflight = [y \in Years |-> 0]
    /\ fetchCount = calls
    /\ failures = [y \in Years |-> 0]
    /\ lastFetch = NoFetch
    /\ dayuseData = ArrayOf(<<>>)
    /\ targetDate = Jan22Noon
    /\ prediction = NoPrediction
    /\ AppIdle

\* isHolidaySync(date): the year and the key it looks up, and what it returns.
\* It reads holidayCache.get(year) and nothing else.
IsHolidaySyncCall(date) ==
    /\ lastSync' = [called  |-> TRUE,
                    date    |-> date,
                    year    |-> getFullYear(ToDate(date), tz),
                    dateStr |-> formatDate(ToDate(date), tz),
                    result  |-> isHolidaySync(date, holidayCache, tz)]
    /\ UNCHANGED <<tz, holidayCache, calls, inflight, fetchCount, failures,
                   lastFetch, dayuseData, targetDate, prediction, storeVars, dashVars,
                   reportVars, importVars, lifeVars, authVars>>

NextClassify == \E date \in SyncArguments : IsHolidaySyncCall(date)

SpecClassify == InitClassify /\ [][NextClassify]_vars

IsDateString(date) == "y" \in DOMAIN date

\* The calendar date an argument stands for: the date a string names, the
\* local calendar day of a Date.
OwnDate(date) ==
    IF IsDateString(date) THEN date ELSE CivilFromDays(LocalDay(date, tz))

\* Whether the cache holds a table for the year of d with the key d.
Listed(d) == d.y \in DOMAIN holidayCache /\ d \in holidayCache[d.y]

-----------------------------------------------------------------------------
(* C12 *)

\* C12 as the spec states it: isHolidaySync(date) returns true if and only if
\* a table is cached for the date's year and the date's YYYY-MM-DD key is in
\* that table, so false for every date whose year was never loaded.
C12_AsStated ==
    lastSync.called => (lastSync.result <=> Listed(OwnDate(lastSync.date)))

\* The same for Date arguments in every offset, and for strings where they
\* are not shifted (local UTC offset >= 0).
C12_DatesAndEastOfGreenwich ==
    (lastSync.called /\ (tz >= 0 \/ ~IsDateString(lastSync.date))) =>
        (lastSync.result <=> Listed(OwnDate(lastSync.date)))

\* In every offset the result is the lookup of the key the call formed, and
\* the call leaves the cache and the requests as they were.
C12_LookupOnly ==
    [][lastSync'.called =>
          /\ lastSync'.result <=>
                 /\ lastSync'.year \in DOMAIN holidayCache
                 /\ lastSync'.dateStr \in holidayCache[lastSync'.year]
          /\ UNCHANGED <<holidayCache, calls, inflight, fetchCount>>]_vars

-----------------------------------------------------------------------------
(* C14 *)

\* C14 as the spec states it: in every local offset the year and the key a
\* date is looked up under are the date's own calendar year, month and day; a
\* 'YYYY-MM-DD' string of the history is looked up under exactly that string
\* in the table of that string's year, and its weekday is that date's weekday.
C14_AsStated ==
    lastSync.called =>
        /\ lastSync.dateStr = OwnDate(lastSync.date)
        /\ lastSync.year = OwnDate(lastSync.date).y
        /\ IsDateString(lastSync.date) =>
               getDay(NewDateFromString(lastSync.date), tz) = CalendarWeekday(lastSync.date)

\* The same for Date arguments in every offset, and for strings where the
\* local UTC offset is >= 0.
C14_DatesAndEastOfGreenwich ==
    (tz >= 0 \/ (lastSync.called /\ ~IsDateString(lastSync.date))) => C14_AsStated

-----------------------------------------------------------------------------
(* C13 *)

\* A step of SpecFetch that is a predictDayuseRevenue call: every step of
\* fetchHolidays changes calls or inflight.
PredictStep == UNCHANGED <<calls, inflight, holidayCache>>

HolidayBases ==
    {"holiday historical average", "holiday (substituted with Saturday data)"}

TargetYear == getFullYear(targetDate, tz)

\* C13 as the spec states it: after a fetch of a year has failed, every later
\* predictDayuseRevenue call classifies the dates of that year as
\* non-holidays: a target of that year is never predicted as a holiday.
C13_AsStated ==
    [][(PredictStep /\ failures[TargetYear] > 0) =>
          prediction'.basis \notin HolidayBases]_vars

\* C13 amended: a failed fetch never rejects, the fetchHolidays call (and so
\* preloadHolidays and initializePrediction, which only await it) resolves
\* with an empty table and leaves the cache as it was; every later
\* predictDayuseRevenue call completes, and classifies the dates of that year
\* as non-holidays for as long as no table is cached for the year, that is
\* until another fetch of the year succeeds.
C13_FailureDegrades ==
    [][/\ \A y \in Years :
              failures'[y] > failures[y] =>
                  /\ lastFetch' = Returned(y, {}, "error")
                  /\ holidayCache' = holidayCache
       /\ PredictStep =>
              /\ HasPrediction'
              /\ TargetYear \notin DOMAIN holidayCache =>
                     prediction'.basis \notin HolidayBases]_vars

\* A prediction made with a failed fetch behind it and no table of the year.
C13_Witness ==
    /\ failures[TargetYear] > 0
    /\ inflight[TargetYear] = 0
    /\ TargetYear \notin DOMAIN holidayCache
    /\ HasPrediction
    /\ prediction.basis = "Mon weekday historical average"

-----------------------------------------------------------------------------
(* The Dashboard: from the selected hotel, the stored monthly target, the   *)
(* stored history and the three input fields, one render derives the daily  *)
(* target, the day-use revenue, the remaining rooms and the minimum price.  *)

\* HOTELS, and getHotelById: the entry with that id, or undefined.
HOTELS ==
    << [id |-> "hotel_a", rooms |-> 52],
       [id |-> "hotel_b", rooms |-> 45],
       [id |-> "hotel_c", rooms |-> 21] >>

Undefined == [undefined |-> TRUE]

getHotelById(hotelId) ==
    IF \E i \in 1..Len(HOTELS) : HOTELS[i].id = hotelId
    THEN HOTELS[CHOOSE i \in 1..Len(HOTELS) :
                    /\ HOTELS[i].id = hotelId
                    /\ \A j \in 1..(i - 1) : HOTELS[j].id # hotelId]
    ELSE Undefined

\* hotel?.rooms || 0
totalRoomsOf(hotelId) ==
    LET hotel == getHotelById(hotelId)
    IN  IF hotel = Undefined THEN 0 ELSE hotel.rooms

\* The key `${year}-${MM}` of a monthly target.
MonthKey(year, month) == [y |-> year, m |-> month]

\* getHotelSettings(hotelId): allSettings[hotelId] || { monthlyTargets: {} }
getHotelSettings(allSettings, hotelId) ==
    IF hotelId \in DOMAIN allSettings
    THEN allSettings[hotelId]
    ELSE [monthlyTargets |-> <<>>]

\* getMonthlyTarget(hotelId, year, month): monthlyTargets?.[key] || 0
getMonthlyTarget(allSettings, hotelId, year, month) ==
    LET settings == getHotelSettings(allSettings, hotelId)
        key == MonthKey(year, month)
    IN  IF key \in DOMAIN settings.monthlyTargets
        THEN settings.monthlyTargets[key]
        ELSE 0

\* getDayuseData(hotelId): allData[hotelId] || []
getDayuseData(allData, hotelId) ==
    IF hotelId \in DOMAIN allData THEN allData[hotelId] ELSE <<>>

\* date.getMonth(), read in local time: 0 = January.
getMonth(date, offset) == CivilFromDays(LocalDay(date, offset)).m - 1

\* new Date(year, month, 0).getDate(): the last day of month `month` (1..12).
daysInMonthOf(year, month) ==
    IF month = 12
    THEN DaysFromCivil(year + 1, 1, 1) - DaysFromCivil(year, 12, 1)
    ELSE DaysFromCivil(year, month + 1, 1) - DaysFromCivil(year, month, 1)

\* parseInt(field) || 0: NaN for '' and for text without a leading integer.
ParseIntOrZero(field) == IF field.kind = "num" THEN field.n ELSE 0

\* Math.ceil(a / b) and Math.max(a, b), b > 0.
MathCeil(a, b) == 0 - ((0 - a) \div b)
MathMax(a, b) == IF a >= b THEN a ELSE b

\* dailyTarget: the monthly target spread over the days of the month.
dailyTarget_Truncated(monthlyTarget, daysInMonth) ==
    IF monthlyTarget > 0 THEN monthlyTarget \div daysInMonth ELSE 0

dailyTarget(monthlyTarget, daysInMonth) ==
    IF monthlyTarget > 0 THEN MathRound(monthlyTarget, daysInMonth) ELSE 0

\* dayuseRevenue: the manual product when both fields are positive, else the
\* predicted revenue.
dayuseRevenue_EitherPositive(dayuseCount, dayuseAvgPrice, predicted) ==
    LET count == ParseIntOrZero(dayuseCount)
        avgPrice == ParseIntOrZero(dayuseAvgPrice)
    IN  IF count > 0 \/ avgPrice > 0 THEN count * avgPrice ELSE predicted.revenue

dayuseRevenue(dayuseCount, dayuseAvgPrice, predicted) ==
    LET count == ParseIntOrZero(dayuseCount)
        avgPrice == ParseIntOrZero(dayuseAvgPrice)
    IN  IF count > 0 /\ avgPrice > 0 THEN count * avgPrice ELSE predicted.revenue

\* remainingRooms: rooms not booked for a stay, at least one.
remainingRooms_NoFloor(totalRooms, stayCount) ==
    totalRooms - ParseIntOrZero(stayCount)

remainingRooms(totalRooms, stayCount) ==
    MathMax(1, totalRooms - ParseIntOrZero(stayCount))

\* minimumPrice: what each remaining room must bring to reach the target.
minimumPrice_Floor(target, revenue, rooms) ==
    IF target <= 0 THEN 0
    ELSE IF target - revenue <= 0 THEN 0
    ELSE (target - revenue) \div rooms

minimumPrice_NoTargetGuard(target, revenue, rooms) ==
    IF target - revenue <= 0 THEN 0
    ELSE MathCeil(target - revenue, rooms)

minimumPrice(target, revenue, rooms) ==
    IF target <= 0 THEN 0
    ELSE LET requiredRevenue == target - revenue
         IN  IF requiredRevenue <= 0 THEN 0
             ELSE MathCeil(requiredRevenue, rooms)

\* The hotel ids the Dashboard is given: two of HOTELS and an unknown one.
SelectedHotels == {"hotel_a", "hotel_c", "hotel_x"}

\* Today: a January noon, and 30 April 20:00Z, which is 1 May in Japan.
Apr30Late == DateAt(2024, 4, 30, 20)
Todays == {Jan22Noon, Apr30Late}

\* The settings store: empty, or one saved target (Settings saves
\* parseInt(value) || 0, so 0 and negatives are stored too).
TargetValues == {0 - 1000, 0, 10, 200000, 300000}
TargetKeys == {MonthKey(2024, 1), MonthKey(2024, 4), MonthKey(2024, 5)}

SettingsStores ==
    {<<>>} \cup
    { (h :> [monthlyTargets |-> (k :> v)]) :
          h \in {"hotel_a", "hotel_c"}, k \in TargetKeys, v \in TargetValues }

\* The history store: empty, or one uploaded row per hotel (parseCSV keeps
\* parseInt(price) || 0, so a negative price is stored as it is).
Row(id, date, price) == [id |-> id, date |-> date, price |-> price]

HistoryStores ==
    { <<>>,
      ("hotel_a" :> <<Row("r1", Mon2024Jan15, 4000)>>) @@
          ("hotel_c" :> <<Row("r2", Mon2024Jan15, 0 - 500)>>),
      ("hotel_a" :> <<Row("r1", Mon2024Jan15, 0 - 500)>>) @@
          ("hotel_c" :> <<Row("r2", Mon2024Jan15, 12000)>>) }

\* The input fields; the stay price takes no part in what is derived.
StayFields == {EmptyField, TextField, NumField(0), NumField(50), NumField(60)}
CountFields == {EmptyField, TextField, NumField(2), NumField(0 - 1)}
PriceFields == {EmptyField, NumField(0), NumField(2000), NumField(6000)}

InputStates ==
    { [dayuseCount |-> c, dayuseAvgPrice |-> p, stayCount |-> st,
       stayAvgPrice |-> EmptyField] :
          c \in CountFields, p \in PriceFields, st \in StayFields }

InitPricing ==
    /\ tz \in TZOffsets
    /\ holidayCache = <<>>
    /\ calls = [y \in Years |-> 0]
    /\ inflight = [y \in Years |-> 0]
    /\ fetchCount = calls
    /\ failures = [y \in Years |-> 0]
    /\ lastFetch = NoFetch
    /\ dayuseData = ArrayOf(<<>>)
    /\ targetDate \in Todays
    /\ prediction = NoPrediction
    /\ lastSync = NoSync
    /\ hotelSettings \in SettingsStores
    /\ dayuseStore \in HistoryStores
    /\ dailyInputs = <<>>
    /\ lastMerge = NoMerge
    /\ selectedHotelId \in SelectedHotels
    /\ inputs \in InputStates
    /\ pricing = NoPricing
    /\ stats = NoStats
    /\ parsedData = [null |-> TRUE]
    /\ uploadError = ""
    /\ dash = NoDash
    /\ AuthIdle

\* today.toISOString().split('T')[0]: the date of the instant in UTC.
toISODate(date) == CivilFromDays(date.t \div 24)

\* date.getDate(), read in local time.
getDate(date, offset) == CivilFromDays(LocalDay(date, offset)).d

\* What one render of the Dashboard derives.
RenderBody ==
    LET year == getFullYear(targetDate, tz)
        month == getMonth(targetDate, tz) + 1
        daysInMonth == daysInMonthOf(year, month)
        totalRooms == totalRoomsOf(selectedHotelId)
        monthlyTarget == getMonthlyTarget(hotelSettings, selectedHotelId, year, month)
        target == dailyTarget(monthlyTarget, daysInMonth)
        history == ArrayOf(getDayuseData(dayuseStore, selectedHotelId))
        predicted == predictDayuseRevenue(history, targetDate, holidayCache, tz)
        revenue == dayuseRevenue(inputs.dayuseCount, inputs.dayuseAvgPrice, predicted)
        rooms == remainingRooms(totalRooms, inputs.stayCount)
    IN  /\ dayuseData' = history
        /\ prediction' = predicted
        /\ pricing' = [rendered       |-> TRUE,
                       dateStr        |-> toISODate(targetDate),
                       year           |-> year,
                       month          |-> month,
                       daysInMonth    |-> daysInMonth,
                       totalRooms     |-> totalRooms,
                       monthlyTarget  |-> monthlyTarget,
                       dailyTarget    |-> target,
                       dayuseRevenue  |-> revenue,
                       remainingRooms |-> rooms,
                       minimumPrice   |-> minimumPrice(target, revenue, rooms)]

\* One render of the Dashboard.
Render ==
    /\ RenderBody
    /\ UNCHANGED <<tz, holidayCache, calls, inflight, fetchCount, failures,
                   lastFetch, targetDate, lastSync, storeVars,
                   selectedHotelId, inputs, reportVars, importVars, lifeVars, authVars>>

NextPricing == Render

SpecPricing == InitPricing /\ [][NextPricing]_vars

Rendered == pricing.rendered

\* What the fields hold as numbers.
ManualCount == ParseIntOrZero(inputs.dayuseCount)
ManualAvgPrice == ParseIntOrZero(inputs.dayuseAvgPrice)
BookedStayRooms == ParseIntOrZero(inputs.stayCount)

\* p is the least integer with p * b >= a.
IsCeiling(p, a, b) == p * b >= a /\ (p - 1) * b < a

\* The calendar year and month of today, where the Dashboard runs.
TodayLocal == CivilFromDays(LocalDay(targetDate, tz))

\* The length of a calendar month.
LeapYear(y) == (y % 4 = 0 /\ y % 100 # 0) \/ y % 400 = 0
MonthLength(y, m) ==
    IF m = 2 THEN (IF LeapYear(y) THEN 29 ELSE 28)
    ELSE IF m \in {4, 6, 9, 11} THEN 30 ELSE 31

\* The target stored for the selected hotel and today's year-month, 0 if none.
StoredTarget ==
    IF /\ selectedHotelId \in DOMAIN hotelSettings
       /\ MonthKey(TodayLocal.y, TodayLocal.m)
              \in DOMAIN hotelSettings[selectedHotelId].monthlyTargets
    THEN hotelSettings[selectedHotelId].monthlyTargets[MonthKey(TodayLocal.y, TodayLocal.m)]
    ELSE 0

C16_RemainingRooms ==
    Rendered =>
        /\ pricing.remainingRooms >= 1
        /\ pricing.remainingRooms >= pricing.totalRooms - BookedStayRooms
        /\ pricing.remainingRooms \in {1, pricing.totalRooms - BookedStayRooms}
        /\ inputs.stayCount.kind # "num" => BookedStayRooms = 0
        /\ selectedHotelId \notin {HOTELS[i].id : i \in 1..Len(HOTELS)} =>
               pricing.totalRooms = 0

\* A render where more stays are booked than the hotel has rooms.
C16_Witness ==
    /\ Rendered
    /\ pricing.totalRooms > 0
    /\ BookedStayRooms >= pricing.totalRooms
    /\ pricing.remainingRooms = 1

\* C17: dailyTarget is round(monthlyTarget / daysInMonth) when the target
\* stored for the selected hotel and the current year-month is positive, and
\* 0 when that target is 0 or unset.
C17_DailyTarget ==
    Rendered =>
        /\ StoredTarget > 0 =>
               IsRounded(pricing.dailyTarget, StoredTarget,
                         MonthLength(TodayLocal.y, TodayLocal.m))
        /\ StoredTarget = 0 => pricing.dailyTarget = 0

\* A render in a 30-day month whose daily target is rounded up.
C17_Witness ==
    /\ Rendered
    /\ StoredTarget > 0
    /\ pricing.daysInMonth = 30
    /\ pricing.dailyTarget * 30 > StoredTarget

\* C18: dayuseRevenue is manualCount * manualAvgPrice exactly when both are
\* positive; otherwise (a field empty, zero, non-numeric or negative) it is
\* the prediction's revenue.
C18_DayuseRevenue ==
    Rendered =>
        IF ManualCount > 0 /\ ManualAvgPrice > 0
        THEN pricing.dayuseRevenue = ManualCount * ManualAvgPrice
        ELSE pricing.dayuseRevenue = prediction.revenue

\* A render with a count but no price, and a prediction that is not 0.
C18_Witness ==
    /\ Rendered
    /\ ManualCount > 0
    /\ ManualAvgPrice = 0
    /\ prediction.revenue > 0
    /\ pricing.dayuseRevenue = prediction.revenue

\* C19: when the monthly target is 0 or unset, dailyTarget is 0 and
\* minimumPrice is 0, whatever the prediction, the manual fields and the
\* rooms, a negative dayuseRevenue included.
C19_NoTargetNoPrice ==
    (Rendered /\ StoredTarget = 0) =>
        /\ pricing.monthlyTarget = 0
        /\ pricing.dailyTarget = 0
        /\ pricing.minimumPrice = 0

\* A render without a target whose day-use revenue is negative.
C19_Witness ==
    /\ Rendered
    /\ StoredTarget = 0
    /\ pricing.dayuseRevenue < 0
    /\ pricing.minimumPrice = 0

-----------------------------------------------------------------------------
(* The history store: an upload saves the parsed rows as they are, and      *)
(* mergeDayuseData, appendDayuseData and clearDayuseData work on what is    *)
(* stored.                                                                  *)

MaxRows == 2     \* longest array handed to the store in one call
MaxStored == 2   \* longest array appendDayuseData is let to build

\* The ids of a CSV row: an empty cell or a text. parseCSV checks the header
\* for the id column and the date of each row, not the id cells.
RowIds == {"", "r1", "r2"}

\* A row of a file that also has the optional check_in column.
RowWithCheckIn(id, date, price, checkIn) ==
    [id |-> id, date |-> date, price |-> price, check_in |-> checkIn]

\* Rows of files with the columns id,date,price and id,date,price,check_in.
Rows ==
    {Row(id, Mon2024Jan15, 5000) : id \in RowIds}
        \cup {Row("r1", Mon2024Jan15, 7000),
              RowWithCheckIn("r1", Mon2024Jan15, 5000, "10:00")}

RowArrays == UNION {[1..n -> Rows] : n \in 0..MaxRows}

\* if (item.id): a row with a non-empty id.
HasId(item) == item.id # ""

\* dataMap.has(id), and the position of the entry in insertion order.
MapHas(dataMap, id) == \E i \in 1..Len(dataMap) : dataMap[i].id = id
MapIndex(dataMap, id) == CHOOSE i \in 1..Len(dataMap) : dataMap[i].id = id
MapGet(dataMap, id) == dataMap[MapIndex(dataMap, id)]

\* dataMap.set(item.id, item): a known key keeps its place, a new one is last.
MapSet(dataMap, item) ==
    IF MapHas(dataMap, item.id)
    THEN [dataMap EXCEPT ![MapIndex(dataMap, item.id)] = item]
    ELSE Append(dataMap, item)

\* { ...old, ...item }
Spread(old, item) ==
    [f \in DOMAIN old \cup DOMAIN item |-> IF f \in DOMAIN item THEN item[f] ELSE old[f]]

\* existingData.forEach: the rows with an id, keyed by id.
RECURSIVE MapOfExisting(_, _, _)
MapOfExisting(existingData, n, dataMap) ==
    IF n > Len(existingData) THEN dataMap
    ELSE MapOfExisting(existingData, n + 1,
                       IF HasId(existingData[n])
                       THEN MapSet(dataMap, existingData[n])
                       ELSE dataMap)

\* newData.forEach: one row merged into the map and the two counters.
MergeStep(acc, item) ==
    IF ~HasId(item) THEN acc
    ELSE IF MapHas(acc.dataMap, item.id)
    THEN [acc EXCEPT !.dataMap = MapSet(acc.dataMap, Spread(MapGet(acc.dataMap, item.id), item)),
                     !.updated = acc.updated + 1]
    ELSE [acc EXCEPT !.dataMap = MapSet(acc.dataMap, item),
                     !.added = acc.added + 1]

RECURSIVE MergeFrom(_, _, _)
MergeFrom(newData, n, acc) ==
    IF n > Len(newData) THEN acc
    ELSE MergeFrom(newData, n + 1, MergeStep(acc, newData[n]))

\* mergeDayuseData up to the save: the merged array and the counters.
mergeDayuseData(existingData, newData) ==
    MergeFrom(newData, 1,
              [dataMap |-> MapOfExisting(existingData, 1, <<>>),
               added |-> 0, updated |-> 0])

\* A write that keeps the written hotel only.
StoreSet_OnlyThisHotel(allData, hotelId, data) ==
    [h \in {hotelId} |-> data]

\* allData[hotelId] = data
StoreSet(allData, hotelId, data) ==
    [h \in DOMAIN allData \cup {hotelId} |-> IF h = hotelId THEN data ELSE allData[h]]

\* delete allData[hotelId]
StoreDelete(allData, hotelId) ==
    [h \in DOMAIN allData \ {hotelId} |-> allData[h]]

InitStore ==
    /\ tz = 9
    /\ holidayCache = <<>>
    /\ calls = [y \in Years |-> 0]
    /\ inflight = [y \in Years |-> 0]
    /\ fetchCount = calls
    /\ failures = [y \in Years |-> 0]
    /\ lastFetch = NoFetch
    /\ dayuseData = ArrayOf(<<>>)
    /\ targetDate = Jan22Noon
    /\ prediction = NoPrediction
    /\ AppIdle

StoreStep ==
    UNCHANGED <<tz, holidayCache, calls, inflight, fetchCount, failures, lastFetch,
                dayuseData, targetDate, prediction, lastSync, hotelSettings,
                dailyInputs, dashVars, reportVars, importVars, lifeVars, authVars>>

\* Settings.handleUploadComplete: saveDayuseData(selectedHotelId, data).
SaveDayuseData(data) ==
    /\ Len(data) > 0
    /\ dayuseStore' = StoreSet(dayuseStore, selectedHotelId, data)
    /\ UNCHANGED lastMerge
    /\ StoreStep

\* mergeDayuseData(selectedHotelId, newData).
MergeDayuseData(newData) ==
    LET existingData == getDayuseData(dayuseStore, selectedHotelId)
        merged == mergeDayuseData(existingData, newData)
    IN  /\ dayuseStore' = StoreSet(dayuseStore, selectedHotelId, merged.dataMap)
        /\ lastMerge' = [called   |-> TRUE,
                         existing |-> existingData,
                         newData  |-> newData,
                         merged   |-> merged.dataMap,
                         added    |-> merged.added,
                         updated  |-> merged.updated,
                         total    |-> Len(merged.dataMap)]
        /\ StoreStep

\* appendDayuseData(selectedHotelId, newData).
AppendDayuseData(newData) ==
    LET existingData == getDayuseData(dayuseStore, selectedHotelId)
    IN  /\ Len(existingData) + Len(newData) <= MaxStored
        /\ dayuseStore' = StoreSet(dayuseStore, selectedHotelId, existingData \o newData)
        /\ UNCHANGED lastMerge
        /\ StoreStep

\* clearDayuseData(selectedHotelId).
ClearDayuseData ==
    /\ dayuseStore' = StoreDelete(dayuseStore, selectedHotelId)
    /\ UNCHANGED lastMerge
    /\ StoreStep

NextStore ==
    \/ \E data \in RowArrays : SaveDayuseData(data)
    \/ \E newData \in RowArrays : MergeDayuseData(newData)
    \/ \E newData \in RowArrays : AppendDayuseData(newData)
    \/ ClearDayuseData

SpecStore == InitStore /\ [][NextStore]_vars

\* The last call merged one record that has an id.
MergedOneRecord ==
    /\ lastMerge.called
    /\ Len(lastMerge.newData) = 1
    /\ HasId(lastMerge.newData[1])

\* The id of that record was, or was not, stored before the call.
IdExisted ==
    \E i \in 1..Len(lastMerge.existing) :
        lastMerge.existing[i].id = lastMerge.newData[1].id

\* Every stored record had an id of its own.
DistinctIds(data) ==
    \A i \in 1..Len(data) :
        /\ HasId(data[i])
        /\ \A j \in 1..Len(data) : data[i].id = data[j].id => i = j

\* C20 as stated: for every stored history, merging a record whose id exists
\* leaves the number of stored records unchanged, and merging a record whose
\* id is new makes it one more.
C20_AsStated ==
    MergedOneRecord =>
        lastMerge.total = IF IdExisted THEN Len(lastMerge.existing)
                          ELSE Len(lastMerge.existing) + 1

\* C20 for the histories in which every record has an id of its own: the
\* count is unchanged for an existing id (whose record takes the fields of
\* the new one) and one more for a new id.
C20_DistinctIdsOnly ==
    (MergedOneRecord /\ DistinctIds(lastMerge.existing)) =>
        /\ lastMerge.total = IF IdExisted THEN Len(lastMerge.existing)
                             ELSE Len(lastMerge.existing) + 1
        /\ lastMerge.added = (IF IdExisted THEN 0 ELSE 1)
        /\ lastMerge.updated = (IF IdExisted THEN 1 ELSE 0)
        /\ \E i \in 1..Len(lastMerge.merged) :
               \A f \in DOMAIN lastMerge.newData[1] :
                   lastMerge.merged[i][f] = lastMerge.newData[1][f]

\* A merge of an existing id into two records with ids of their own.
C20_DistinctIdsWitness ==
    /\ MergedOneRecord
    /\ DistinctIds(lastMerge.existing)
    /\ Len(lastMerge.existing) = 2
    /\ IdExisted
    /\ lastMerge.newData[1] \notin {lastMerge.existing[i] : i \in 1..2}
    /\ lastMerge.total = 2

\* The last call merged one record whose id was stored before the call.
MergedExistingId == MergedOneRecord /\ IdExisted

\* The record stored under the merged id after the call.
StoredAfterMerge == MapGet(lastMerge.merged, lastMerge.newData[1].id)

\* The record stored under the merged id before the call (the last one, as
\* the Map keeps it).
StoredBeforeMerge ==
    MapGet(MapOfExisting(lastMerge.existing, 1, <<>>), lastMerge.newData[1].id)

\* C21 as stated: after a merge of a record whose id is stored, the stored
\* record of that id is the incoming record, the prior one being replaced
\* and not combined with it field by field.
C21_AsStated == MergedExistingId => StoredAfterMerge = lastMerge.newData[1]

\* What the merge does instead: the stored record has every field of the
\* incoming record with its value, and every other field of the prior record.
C21_FieldByField ==
    MergedExistingId =>
        /\ DOMAIN StoredAfterMerge
               = DOMAIN StoredBeforeMerge \cup DOMAIN lastMerge.newData[1]
        /\ \A f \in DOMAIN lastMerge.newData[1] :
               StoredAfterMerge[f] = lastMerge.newData[1][f]
        /\ \A f \in DOMAIN StoredBeforeMerge \ DOMAIN lastMerge.newData[1] :
               StoredAfterMerge[f] = StoredBeforeMerge[f]

\* A merge that left a field of the prior record in the stored one.
C21_FieldKept ==
    /\ MergedExistingId
    /\ "check_in" \in DOMAIN StoredAfterMerge
    /\ "check_in" \notin DOMAIN lastMerge.newData[1]
    /\ StoredAfterMerge.price = 7000

-----------------------------------------------------------------------------
(* The day under which the Dashboard keeps today's manual fields.           *)

\* C29 as stated: at every instant and in every offset, the date string that
\* keys today's manual fields is the local calendar day (year, month, day,
\* weekday) used for the monthly target, daysInMonth and the target date.
C29_AsStated ==
    Rendered =>
        /\ pricing.dateStr.y = pricing.year
        /\ pricing.dateStr.m = pricing.month
        /\ pricing.dateStr.d = getDate(targetDate, tz)
        /\ CalendarWeekday(pricing.dateStr) = getDay(targetDate, tz)

\* Where the local clock is UTC the two days are the same.
C29_SameDayInUTC == tz = 0 => C29_AsStated

\* A render in Japan on the morning of 1 May, keyed under 30 April.
C29_DayBehind ==
    /\ Rendered
    /\ tz = 9
    /\ pricing.dateStr = DateStr(2024, 4, 30)
    /\ pricing.month = 5

-----------------------------------------------------------------------------
(* getDayOfWeekStats: the weekday averages of a history, for reporting.     *)

\* getDayOfWeekStats(dayuseData): one entry per weekday name.
getDayOfWeekStats(items, offset) ==
    [name \in {dayNames[i] : i \in 1..7} |->
        LET dow == (CHOOSE i \in 1..7 : dayNames[i] = name) - 1
            predicted == predictFromDayOfWeek(items, dow, Null, offset)
        IN  [dayOfWeek  |-> dow,
             avgCount   |-> predicted.count,
             avgRevenue |-> predicted.revenue,
             avgPrice   |-> predicted.avgPrice]]

\* The holiday tables the statistics are computed under.
StatsCaches ==
    {<<>>, (2024 :> {Mon2024Jan01, Mon2024Jan08}),
     (2023 :> {Sat2023Feb11}) @@ (2024 :> {Mon2024Jan01, Mon2024Jan08})}

InitStats ==
    /\ tz \in TZOffsets
    /\ holidayCache \in StatsCaches
    /\ calls = [y \in Years |-> IF y \in DOMAIN holidayCache THEN 1 ELSE 0]
    /\ inflight = [y \in Years |-> 0]
    /\ fetchCount = calls
    /\ failures = [y \in Years |-> 0]
    /\ lastFetch = NoFetch
    /\ dayuseData \in {ArrayOf(h) : h \in Histories}
    /\ targetDate = Jan22Noon
    /\ prediction = NoPrediction
    /\ AppIdle

\* A call getDayOfWeekStats(dayuseData).
Stats ==
    /\ stats' = [called |-> TRUE, result |-> getDayOfWeekStats(dayuseData.items, tz)]
    /\ UNCHANGED <<tz, holidayCache, calls, inflight, fetchCount, failures,
                   lastFetch, dayuseData, targetDate, prediction, lastSync,
                   storeVars, dashVars, importVars, lifeVars, authVars>>

NextStats == Stats

SpecStats == InitStats /\ [][NextStats]_vars

\* The days the weekday rule averages for weekday w: the aggregated days of
\* that weekday, or all aggregated days when there is none.
RuleDates(w) ==
    IF WeekdayDates(w) # {} THEN WeekdayDates(w) ELSE DatesIn(dayuseData.items)

\* An entry of the statistics is what the weekday rule gives for weekday w.
IsRuleResult(entry, w) ==
    /\ entry.dayOfWeek = w
    /\ IF RuleDates(w) = {}
       THEN entry.avgCount = 0 /\ entry.avgRevenue = 0
       ELSE IsAverageOver([count |-> entry.avgCount, revenue |-> entry.avgRevenue],
                          dayuseData.items, RuleDates(w))
    /\ IF entry.avgCount > 0
       THEN IsRounded(entry.avgPrice, entry.avgRevenue, entry.avgCount)
       ELSE entry.avgPrice = 0

\* C26 as stated: getDayOfWeekStats(history) has an entry for each of the 7
\* weekdays, and its avgCount, avgRevenue and avgPrice are the weekday rule's
\* result for that weekday (the average of the aggregated days of that
\* weekday, or of all aggregated days when there is none), whatever the
\* holiday cache holds.
C26_AsStated ==
    stats.called =>
        /\ DOMAIN stats.result = {dayNames[i] : i \in 1..7}
        /\ \A w \in 0..6 : IsRuleResult(stats.result[dayNames[w + 1]], w)

\* The same where date strings are not shifted (local UTC offset >= 0).
C26_EastOfGreenwich == tz >= 0 => C26_AsStated

\* Statistics of a history with a Monday, computed in Japan with holidays
\* loaded: the Monday entry counts that day.
C26_MondayCounted ==
    /\ stats.called
    /\ tz = 9
    /\ holidayCache # <<>>
    /\ WeekdayDates(1) # {}
    /\ WeekdayDates(6) # {}
    /\ stats.result["Mon"].avgRevenue # stats.result["Sat"].avgRevenue

-----------------------------------------------------------------------------
(* A confirmed upload.                                                      *)

\* The ids of the rows of an array.
IdsOf(data) == {data[i].id : i \in 1..Len(data)}

\* The history of the selected hotel, before and after a step.
StoredHistory == getDayuseData(dayuseStore, selectedHotelId)
StoredHistoryAfter == getDayuseData(dayuseStore', selectedHotelId)

\* C23 as stated: a confirmed upload is an upsert by id: stored records with
\* the id of an uploaded row are overwritten, uploaded rows with new ids are
\* added, and stored records whose ids are not in the file remain stored.
C23_AsStated ==
    [][\A data \in RowArrays :
          SaveDayuseData(data) =>
              /\ \A i \in 1..Len(StoredHistory) :
                     StoredHistory[i].id \notin IdsOf(data) =>
                         \E j \in 1..Len(StoredHistoryAfter) :
                             StoredHistoryAfter[j] = StoredHistory[i]
              /\ \A id \in IdsOf(data) :
                     \E j \in 1..Len(StoredHistoryAfter) :
                         StoredHistoryAfter[j].id = id]_vars

\* What a confirmed upload does: the stored history becomes the file's rows.
C23_Overwrite ==
    [][\A data \in RowArrays :
          SaveDayuseData(data) => StoredHistoryAfter = data]_vars

-----------------------------------------------------------------------------
(* CSV import: a chosen file is parsed into rows, and the confirmed rows    *)
(* are saved as the history of the selected hotel.                          *)

MaxFileRows == 2   \* most data lines of a chosen file

REQUIRED_COLUMNS == {"id", "date", "price"}

\* A date cell: empty, a text new Date() cannot read, or a 'YYYY-MM-DD' text.
EmptyDateCell == [kind |-> "empty", date |-> DateStr(0, 0, 0)]
TextDateCell == [kind |-> "text", date |-> DateStr(0, 0, 0)]
IsoDateCell(date) == [kind |-> "iso", date |-> date]

\* A data line of a file with the header id,date,price: its cells; a blank
\* line; a line with fewer cells than the header.
DataLine(id, date, price) ==
    [kind |-> "cells", id |-> id, date |-> date, price |-> price]
BlankLine ==
    [kind |-> "blank", id |-> "", date |-> EmptyDateCell, price |-> EmptyField]
ShortLine ==
    [kind |-> "short", id |-> "r1", date |-> IsoDateCell(Mon2024Jan15), price |-> EmptyField]

DataLines ==
    { DataLine("r1", IsoDateCell(Mon2024Jan15), NumField(5000)),
      DataLine("r1", IsoDateCell(Mon2024Jan15), TextField),
      DataLine("r1", IsoDateCell(Mon2024Jan15), EmptyField),
      DataLine("", IsoDateCell(Mon2024Jan15), NumField(5000)),
      DataLine("", IsoDateCell(Mon2024Jan15), NumField(0 - 500)),
      DataLine("r1", EmptyDateCell, NumField(5000)),
      DataLine("r1", TextDateCell, NumField(5000)),
      BlankLine, ShortLine }

\* The chosen files: a header and at most MaxFileRows lines under it.
File(headers, lines) == [headers |-> headers, lines |-> lines]

Files ==
    { File(REQUIRED_COLUMNS, lines) :
          lines \in UNION {[1..n -> DataLines] : n \in 0..MaxFileRows} }
        \cup { File({"id", "date"}, <<ShortLine>>) }

\* isValidDate(dateStr), after !row.date: the cell is not empty and new Date
\* of it is a date.
isValidDate(cell) == cell.kind = "iso"

\* The result of parseCSV: the rows, or the message of the error thrown.
Parsed(data) == [ok |-> TRUE, data |-> data, message |-> ""]
Thrown(message) == [ok |-> FALSE, data |-> <<>>, message |-> message]

\* The body of the loop over the data lines.
RECURSIVE parseLines(_, _, _)
parseLines(lines, n, data) ==
    IF n > Len(lines) THEN data
    ELSE LET line == lines[n]
         IN  IF line.kind = "blank" THEN parseLines(lines, n + 1, data)
             ELSE IF line.kind = "short" THEN parseLines(lines, n + 1, data)
             ELSE IF ~isValidDate(line.date) THEN parseLines(lines, n + 1, data)
             ELSE parseLines(lines, n + 1,
                             Append(data, Row(line.id, line.date.date,
                                              ParseIntOrZero(line.price))))

\* parseCSV(text)
parseCSV(file) ==
    IF Len(file.lines) < 1
    THEN Thrown("header and data lines needed")
    ELSE IF REQUIRED_COLUMNS \ file.headers # {}
    THEN Thrown("required columns missing")
    ELSE Parsed(parseLines(file.lines, 1, <<>>))

ImportStep ==
    UNCHANGED <<tz, holidayCache, calls, inflight, fetchCount, failures, lastFetch,
                dayuseData, targetDate, prediction, lastSync, hotelSettings,
                dailyInputs, lastMerge, dashVars, reportVars, lifeVars, authVars>>

\* processFile(file) and the reader's onload.
ProcessFile(file) ==
    LET result == parseCSV(file)
    IN  /\ IF ~result.ok
           THEN parsedData' = Null /\ uploadError' = result.message
           ELSE IF Len(result.data) = 0
           THEN parsedData' = Null /\ uploadError' = "no valid data"
           ELSE parsedData' = ArrayOf(result.data) /\ uploadError' = ""
        /\ UNCHANGED dayuseStore
        /\ ImportStep

\* handleConfirm, handleUploadComplete: the rows are saved and the uploader
\* is closed.
HandleConfirm ==
    /\ ~IsNull(parsedData)
    /\ dayuseStore' = StoreSet(dayuseStore, selectedHotelId, parsedData.items)
    /\ parsedData' = Null
    /\ uploadError' = ""
    /\ ImportStep

\* A render of the Dashboard on the stored history.
RenderImported == Render

InitImport == InitStore

NextImport ==
    \/ \E file \in Files : ProcessFile(file)
    \/ HandleConfirm
    \/ RenderImported

SpecImport == InitImport /\ [][NextImport]_vars

\* The records import handed to storage and those the engine was given.
ImportedRecords ==
    {StoredHistory[i] : i \in 1..Len(StoredHistory)}
        \cup {dayuseData.items[i] : i \in 1..Len(dayuseData.items)}

\* C24 as stated: every record import hands to storage and to the engine has
\* id, date and price present, a date that parses and an integer price >= 0;
\* rows with an unparsable date or a missing required field are rejected.
C24_AsStated ==
    \A r \in ImportedRecords :
        /\ DOMAIN r = REQUIRED_COLUMNS
        /\ r.id # ""
        /\ r.date \in HistoryDates
        /\ r.price \in Nat

\* What import ensures: the three fields exist, the date parses and the
\* price is an integer; the id may be empty and the price 0 (from an empty or
\* unreadable cell) or negative.
C24_DateOnly ==
    \A r \in ImportedRecords :
        /\ DOMAIN r = REQUIRED_COLUMNS
        /\ r.date \in HistoryDates
        /\ r.price \in Int

\* A row without id and with a negative price that reached the engine.
C24_BadRowPredicted ==
    /\ HasPrediction
    /\ Len(dayuseData.items) = 1
    /\ dayuseData.items[1].id = ""
    /\ dayuseData.items[1].price < 0
    /\ prediction.revenue < 0

-----------------------------------------------------------------------------
(* The three hotel-keyed stores under writes for one hotel after another.   *)

\* App.onHotelChange: setSelectedHotelId(hotelId). The Dashboard then loads
\* the fields saved for that hotel under today's key, '' for what is not
\* saved.
LoadedField(saved, name) ==
    IF saved[name].null THEN EmptyField ELSE NumField(saved[name].n)

\* getDailyInput(hotelId, dateStr): allData[hotelId]?.[dateStr] || nulls
NullValue == [null |-> TRUE, n |-> 0]
NumValue(n) == [null |-> FALSE, n |-> n]

getDailyInput(allData, hotelId, dateStr) ==
    IF hotelId \in DOMAIN allData /\ dateStr \in DOMAIN allData[hotelId]
    THEN allData[hotelId][dateStr]
    ELSE [dayuseCount |-> NullValue, dayuseAvgPrice |-> NullValue,
          stayCount |-> NullValue, stayAvgPrice |-> NullValue]

\* field ? parseInt(field) : null, as JSON keeps it (NaN is stored as null).
SavedValue(field) == IF field.kind = "num" THEN NumValue(field.n) ELSE NullValue

\* saveDailyInput(hotelId, dateStr, input) up to the write: the new store.
saveDailyInput(allData, hotelId, dateStr, input, now) ==
    LET ofHotel == IF hotelId \in DOMAIN allData THEN allData[hotelId] ELSE <<>>
        entry == Spread(Spread(getDailyInput(allData, hotelId, dateStr), input),
                        [updatedAt |-> now])
    IN  StoreSet(allData, hotelId, StoreSet(ofHotel, dateStr, entry))

\* saveMonthlyTarget(hotelId, year, month, target) up to the write.
saveMonthlyTarget(allSettings, hotelId, year, month, target) ==
    LET settings == getHotelSettings(allSettings, hotelId)
        key == MonthKey(year, month)
    IN  StoreSet(allSettings, hotelId,
                 [settings EXCEPT !.monthlyTargets = StoreSet(@, key, target)])

FrameStep ==
    UNCHANGED <<tz, holidayCache, calls, inflight, fetchCount, failures, lastFetch,
                dayuseData, targetDate, prediction, lastSync, lastMerge, pricing,
                reportVars, importVars, lifeVars, authVars>>

\* The hotel selector: the App selects the hotel, and the Dashboard's effect
\* loads its saved fields.
SelectHotel(hotelId) ==
    /\ hotelId # selectedHotelId
    /\ selectedHotelId' = hotelId
    /\ inputs' = LET saved == getDailyInput(dailyInputs, hotelId, toISODate(targetDate))
                 IN  [name \in DOMAIN inputs |-> LoadedField(saved, name)]
    /\ UNCHANGED <<hotelSettings, dayuseStore, dailyInputs>>
    /\ FrameStep

\* Typing into the day-use count field.
SetDayuseCount(field) ==
    /\ inputs' = [inputs EXCEPT !.dayuseCount = field]
    /\ UNCHANGED <<selectedHotelId, hotelSettings, dayuseStore, dailyInputs>>
    /\ FrameStep

\* Settings.handleTargetChange(key, value).
HandleTargetChange(key, field) ==
    /\ hotelSettings' = saveMonthlyTarget(hotelSettings, selectedHotelId, key.y, key.m,
                                          ParseIntOrZero(field))
    /\ UNCHANGED <<selectedHotelId, inputs, dayuseStore, dailyInputs>>
    /\ FrameStep

\* Dashboard.handleSave.
HandleSave ==
    /\ dailyInputs' = saveDailyInput(dailyInputs, selectedHotelId, toISODate(targetDate),
                                     [name \in DOMAIN inputs |-> SavedValue(inputs[name])],
                                     targetDate.t)
    /\ UNCHANGED <<selectedHotelId, inputs, hotelSettings, dayuseStore>>
    /\ FrameStep

\* The hotels of the selector, the arrays written and the fields typed.
HotelIds == {HOTELS[i].id : i \in 1..Len(HOTELS)}
FrameHotels == {"hotel_a", "hotel_c"}
UploadedArray == <<Row("r1", Mon2024Jan15, 5000)>>
MergedArray == <<Row("r2", Mon2024Jan15, 7000)>>
FrameFields == {EmptyField, NumField(2)}

InitFrame == InitStore

NextFrame ==
    \/ \E hotelId \in FrameHotels : SelectHotel(hotelId)
    \/ \E field \in FrameFields : SetDayuseCount(field)
    \/ \E field \in {NumField(200000)} : HandleTargetChange(MonthKey(2024, 1), field)
    \/ HandleSave
    \/ SaveDayuseData(UploadedArray)
    \/ MergeDayuseData(MergedArray)
    \/ AppendDayuseData(UploadedArray)
    \/ ClearDayuseData

SpecFrame == InitFrame /\ [][NextFrame]_vars

\* What a store holds for a hotel.
SliceOf(store, hotelId) ==
    IF hotelId \in DOMAIN store
    THEN [stored |-> TRUE, value |-> store[hotelId]]
    ELSE [stored |-> FALSE]

\* The stores a step has written.
StoresWritten ==
    {n \in {"hotel_settings", "dayuse_data", "daily_input"} :
        \/ n = "hotel_settings" /\ hotelSettings' # hotelSettings
        \/ n = "dayuse_data" /\ dayuseStore' # dayuseStore
        \/ n = "daily_input" /\ dailyInputs' # dailyInputs}

\* C27: every write to a hotel-keyed store for one hotel leaves what the
\* three stores hold for every other hotel unchanged and leaves the other two
\* stores unchanged; switching hotels writes nothing.
C27_OtherHotelsUntouched ==
    [][/\ \A h \in HotelIds \ {selectedHotelId} :
              /\ SliceOf(hotelSettings', h) = SliceOf(hotelSettings, h)
              /\ SliceOf(dayuseStore', h) = SliceOf(dayuseStore, h)
              /\ SliceOf(dailyInputs', h) = SliceOf(dailyInputs, h)
       /\ Cardinality(StoresWritten) <= 1
       /\ selectedHotelId' # selectedHotelId => StoresWritten = {}]_vars

\* Both hotels have a target, a history and saved fields, and they differ.
C27_Witness ==
    /\ \A h \in FrameHotels :
           h \in DOMAIN hotelSettings /\ h \in DOMAIN dayuseStore /\ h \in DOMAIN dailyInputs
    /\ dayuseStore["hotel_a"] # dayuseStore["hotel_c"]
    /\ dailyInputs["hotel_a"] # dailyInputs["hotel_c"]

-----------------------------------------------------------------------------
(* Passwords, the login attempt limit and the session (security utilities).  *)
(* Instants are Date.now() values, in milliseconds from 2023-12-31T00:00Z.   *)

MAX_LOGIN_ATTEMPTS == 5
LOCKOUT_DURATION_MS == 30 * 1000
SESSION_DURATION_MS == 24 * 60 * 60 * 1000

\* Date.prototype.getTime(): a Date counts hours, Date.now() milliseconds.
getTime(date) == (date.t - DateAt(2023, 12, 31, 0).t) * 60 * 60 * 1000

\* hashPassword: the SHA-256 digest of the message as a hex string; equal
\* messages give equal digests and the digest is not the message.
hashPassword(message) == [sha256 |-> message]

\* verifyPassword: inputHash === storedHash; the stored hash is null when
\* no password has been set.
verifyPassword(inputPassword, storedHash) == hashPassword(inputPassword) = storedHash

\* isPasswordSet: localStorage.getItem(PASSWORD) !== null.
isPasswordSet(stored) == ~IsNull(stored)

\* getLoginAttempts: the stored object, or { attempts: 0, lockoutUntil: null }.
\* lockoutUntil is null or an instant; null is written 0, and the code reads
\* it through !current.lockoutUntil, which is true of both.
getLoginAttempts(stored) ==
    IF IsNull(stored) THEN [attempts |-> 0, lockoutUntil |-> 0] ELSE stored

\* recordLoginFailure at instant t: what it stores, and whether it locked.
recordLoginFailure(stored, t) ==
    LET current     == getLoginAttempts(stored)
        newAttempts == current.attempts + 1
        isLocked    == newAttempts >= MAX_LOGIN_ATTEMPTS
    IN  [stored |-> [attempts |-> newAttempts,
                     lockoutUntil |-> IF isLocked THEN t + LOCKOUT_DURATION_MS ELSE 0],
         isLocked |-> isLocked]

\* resetLoginAttempts: localStorage.removeItem(LOGIN_ATTEMPTS_KEY).
resetLoginAttempts == Null

\* checkLockout that never reports a lock.
checkLockout_NeverLocked(stored, t) ==
    [isLocked |-> FALSE, stored |-> stored]

\* checkLockout at instant t: its answer, and what is stored after it (a
\* lock that has run out is removed together with the counter).
checkLockout(stored, t) ==
    LET current == getLoginAttempts(stored)
    IN  IF current.lockoutUntil = 0
        THEN [isLocked |-> FALSE, stored |-> stored]
        ELSE IF t >= current.lockoutUntil
             THEN [isLocked |-> FALSE, stored |-> resetLoginAttempts]
             ELSE [isLocked |-> TRUE, stored |-> stored]

\* createSession() at instant t (hotelId defaults to null).
createSession(t) ==
    [createdAt |-> t, expiresAt |-> t + SESSION_DURATION_MS, hotelId |-> Null]

\* getSession at instant t: the stored session, or null when there is none
\* or it has expired; an expired session is removed, so what is stored
\* after the call is what the call returns.
getSession(stored, t) ==
    IF IsNull(stored) THEN Null
    ELSE IF t >= stored.expiresAt THEN Null
    ELSE stored

isSessionValid(stored, t) == ~IsNull(getSession(stored, t))

\* refreshSession at instant t: what is stored after it.
refreshSession(stored, t) ==
    LET s == getSession(stored, t)
    IN  IF IsNull(s) THEN Null
        ELSE [s EXCEPT !.expiresAt = t + SESSION_DURATION_MS]

\* clearSession: localStorage.removeItem(SESSION_KEY).
clearSession == Null

-----------------------------------------------------------------------------
(* The mounted Dashboard: its first render, the preload its effect starts   *)
(* for the year of today, the re-renders React schedules when state         *)
(* changes, and the clock passing midnight of 31 December.                  *)

\* The instants: noon (UTC) of 31 December 2023 and of 1 January 2024.
Dec31Noon == DateAt(2023, 12, 31, 12)
Instants == {Dec31Noon, Jan01Noon}

\* The stored histories of the shown hotel.
DashHistories ==
    { <<>>,
      <<Row("r1", Sat2023Feb11, 5000)>>,
      <<Row("r1", Sat2023Feb11, 5000), Row("r2", Mon2024Jan08, 7000)>>,
      <<Row("r1", Mon2024Jan15, 4000), Row("r2", Mon2024Jan08, 7000)>> }

InitDashboard ==
    /\ tz \in TZOffsets
    /\ holidayCache = <<>>
    /\ calls = [y \in Years |-> 0]
    /\ inflight = [y \in Years |-> 0]
    /\ fetchCount = calls
    /\ failures = [y \in Years |-> 0]
    /\ lastFetch = NoFetch
    /\ dayuseData = ArrayOf(<<>>)
    /\ targetDate \in Instants
    /\ prediction = NoPrediction
    /\ lastSync = NoSync
    /\ hotelSettings = ("hotel_a" :> [monthlyTargets |-> (MonthKey(2024, 1) :> 200000)])
    /\ dayuseStore \in {("hotel_a" :> h) : h \in DashHistories}
    /\ dailyInputs = <<>>
    /\ lastMerge = NoMerge
    /\ selectedHotelId = "hotel_a"
    /\ inputs = EmptyInputs
    /\ pricing = NoPricing
    /\ stats = NoStats
    /\ parsedData = Null
    /\ uploadError = ""
    /\ dash = NoDash
    /\ dateNow = getTime(targetDate)
    /\ passwordHash = hashPassword("pass")
    /\ loginAttempts = Null
    /\ session = createSession(dateNow)
    /\ app = [AppInitial EXCEPT !.isAuthenticated = TRUE, !.isLoading = FALSE]
    /\ login = NoLogin
    /\ lastLogin = NoLoginEvent

\* The state of the component before its first render.
Unmounted ==
    [mounted |-> TRUE, holidaysLoaded |-> FALSE, renderPending |-> TRUE,
     effectYear |-> 0, awaiting |-> {}, loadedOk |-> {}, today |-> targetDate]

\* .then(() => setHolidaysLoaded(true)): a re-render is scheduled when the
\* state changes, none when it is true already.
SetHolidaysLoaded(d) ==
    [d EXCEPT !.holidaysLoaded = TRUE,
              !.renderPending = d.renderPending \/ ~d.holidaysLoaded]

\* A render (the first, or one React has scheduled) and the effects after
\* it: the effect of [year] runs on the first render and when the year has
\* changed, and calls initializePrediction(year).
DashRender ==
    LET d == IF dash.mounted THEN dash ELSE Unmounted
        year == getFullYear(targetDate, tz)
        rendered == [d EXCEPT !.renderPending = FALSE, !.today = targetDate,
                              !.effectYear = year]
    IN  /\ d.renderPending
        /\ RenderBody
        /\ IF year = d.effectYear
           THEN /\ dash' = rendered
                /\ UNCHANGED <<calls, inflight, fetchCount, lastFetch, session>>
           ELSE /\ calls[year] < MaxCalls
                /\ session' = refreshSession(session, dateNow)
                /\ calls' = [calls EXCEPT ![year] = @ + 1]
                /\ IF year \in DOMAIN holidayCache
                   THEN /\ lastFetch' = Returned(year, holidayCache[year], "cache")
                        /\ dash' = SetHolidaysLoaded(
                                       [rendered EXCEPT !.loadedOk = @ \cup {year}])
                        /\ UNCHANGED <<inflight, fetchCount>>
                   ELSE /\ inflight' = [inflight EXCEPT ![year] = @ + 1]
                        /\ fetchCount' = [fetchCount EXCEPT ![year] = @ + 1]
                        /\ dash' = [rendered EXCEPT !.awaiting = @ \cup {year}]
                        /\ UNCHANGED lastFetch
        /\ UNCHANGED <<tz, holidayCache, failures, targetDate, lastSync, storeVars,
                       selectedHotelId, inputs, reportVars, importVars,
                       dateNow, passwordHash, loginAttempts, app, login, lastLogin>>

DashStep ==
    UNCHANGED <<tz, calls, fetchCount, dayuseData, targetDate, prediction, lastSync,
                storeVars, dashVars, reportVars, importVars, authVars>>

\* The response of the preload is OK and parses: the table is cached, the
\* promise of initializePrediction resolves and its callback runs.
PreloadOk(year, holidays) ==
    /\ dash.mounted
    /\ year \in dash.awaiting
    /\ inflight' = [inflight EXCEPT ![year] = @ - 1]
    /\ holidayCache' = CacheSet(holidayCache, year, holidays)
    /\ lastFetch' = Returned(year, holidays, "network")
    /\ dash' = SetHolidaysLoaded([dash EXCEPT !.awaiting = @ \ {year},
                                              !.loadedOk = @ \cup {year}])
    /\ UNCHANGED failures
    /\ DashStep

\* The preload fails: nothing is cached, the promise resolves all the same
\* and its callback runs.
PreloadError(year) ==
    /\ dash.mounted
    /\ year \in dash.awaiting
    /\ inflight' = [inflight EXCEPT ![year] = @ - 1]
    /\ failures' = [failures EXCEPT ![year] = @ + 1]
    /\ lastFetch' = Returned(year, {}, "error")
    /\ dash' = SetHolidaysLoaded([dash EXCEPT !.awaiting = @ \ {year}])
    /\ UNCHANGED holidayCache
    /\ DashStep

\* The user types into the day-use count field: a state change, so a
\* re-render is scheduled.
DashInput(field) ==
    /\ dash.mounted
    /\ field # inputs.dayuseCount
    /\ inputs' = [inputs EXCEPT !.dayuseCount = field]
    /\ dash' = [dash EXCEPT !.renderPending = TRUE]
    /\ UNCHANGED <<tz, holidayCache, calls, inflight, fetchCount, failures, lastFetch,
                   dayuseData, targetDate, prediction, lastSync, storeVars,
                   selectedHotelId, pricing, reportVars, importVars, authVars>>

\* The clock passes midnight; nothing re-renders because of it.
MidnightPasses ==
    /\ targetDate = Dec31Noon
    /\ targetDate' = Jan01Noon
    /\ dateNow' = getTime(targetDate')
    /\ UNCHANGED <<tz, holidayCache, calls, inflight, fetchCount, failures, lastFetch,
                   dayuseData, prediction, lastSync, storeVars, dashVars, reportVars,
                   importVars, lifeVars, passwordHash, loginAttempts, session, app,
                   login, lastLogin>>

NextDashboard ==
    \/ DashRender
    \/ \E year \in Years : \E holidays \in HolidayDocs(year) : PreloadOk(year, holidays)
    \/ \E year \in Years : PreloadError(year)
    \/ \E field \in FrameFields : DashInput(field)
    \/ MidnightPasses

SpecDashboard == InitDashboard /\ [][NextDashboard]_vars

\* Nothing is pending: no render scheduled, no preload awaited.
DashQuiet == dash.mounted /\ ~dash.renderPending /\ dash.awaiting = {}

\* What the prediction and the minimum price of the last render would be if
\* computed now, for the same day, against the holiday cache as it is.
PredictionNow == predictDayuseRevenue(dayuseData, dash.today, holidayCache, tz)

MinimumPriceNow ==
    minimumPrice(pricing.dailyTarget,
                 dayuseRevenue(inputs.dayuseCount, inputs.dayuseAvgPrice, PredictionNow),
                 pricing.remainingRooms)

\* C22 as stated: the prediction is first computed without waiting for the
\* holiday load, and once initializePrediction(year) has resolved, with or
\* without success, the prediction and the minimum price are recomputed
\* against the holiday cache as it then is: with nothing pending, what the
\* Dashboard shows is the prediction against the current cache.
C22_AsStated ==
    /\ dash.mounted => HasPrediction
    /\ DashQuiet => /\ prediction = PredictionNow
                    /\ pricing.minimumPrice = MinimumPriceNow

\* The effect has run once: the preload of the first render is the only one.
FirstPreloadOnly == calls[2023] + calls[2024] = 1

\* The same for the preload the first render starts: once it has resolved,
\* with or without success, the re-render it schedules recomputes both.
C22_FirstPreload ==
    /\ dash.mounted => HasPrediction
    /\ (DashQuiet /\ FirstPreloadOnly) =>
           /\ dash.holidaysLoaded
           /\ prediction = PredictionNow
           /\ pricing.minimumPrice = MinimumPriceNow

\* A Dashboard at rest on New Year's Day, the table of 2024 loaded, showing
\* the prediction of a day that is no holiday.
C22_StaleHoliday ==
    /\ DashQuiet
    /\ isHolidaySync(dash.today, holidayCache, tz)
    /\ prediction.basis \notin HolidayBases
    /\ PredictionNow.basis \in HolidayBases

\* The years of the dates the last prediction classified: the year of its
\* target date and of the date of every record, as isHolidaySync reads them.
ClassifiedYears ==
    {getFullYear(dash.today, tz)}
        \cup {getFullYear(ToDate(dayuseData.items[i].date), tz) :
                  i \in 1..Len(dayuseData.items)}

\* The last prediction was computed after the preload of its year succeeded.
PredictedAfterLoad == DashQuiet /\ getFullYear(dash.today, tz) \in dash.loadedOk

\* C28 as stated: when the Dashboard computes the prediction after its
\* preload has succeeded, the table of every year whose dates the prediction
\* classifies is loaded, so a record dated on a holiday of an earlier year
\* counts as a holiday day.
C28_AsStated ==
    PredictedAfterLoad => ClassifiedYears \subseteq DOMAIN holidayCache

\* What the preload ensures: the table of the year of today is loaded.
C28_YearOfTodayOnly ==
    PredictedAfterLoad => getFullYear(dash.today, tz) \in DOMAIN holidayCache

\* New Year's Day 2024 predicted with the holidays of 2024 loaded and a
\* record of a holiday of 2023 in the history: no holiday day is found.
C28_EarlierHolidayMissed ==
    /\ PredictedAfterLoad
    /\ tz = 9
    /\ isHolidaySync(dash.today, holidayCache, tz)
    /\ 2023 \notin DOMAIN holidayCache
    /\ \E i \in 1..Len(dayuseData.items) : dayuseData.items[i].date = Sat2023Feb11
    /\ prediction.basis = "holiday (substituted with Saturday data)"

-----------------------------------------------------------------------------
(* App, Login and the session: the page is opened or reloaded, a password    *)
(* is set or submitted, the user navigates and logs out, and time passes.    *)

\* The passwords typed: none, one of three characters (too short to be
\* set, and a wrong one at the login), and the one that is set.
NoPassword == <<>>
ShortPassword == <<"a", "b", "c">>
ThePassword == <<"p", "a", "s", "s">>
Passwords == {NoPassword, ShortPassword, ThePassword}

\* The time between two events: ten seconds, thirty seconds, a day.
Delays == {10 * 1000, LOCKOUT_DURATION_MS, SESSION_DURATION_MS}

\* The instants followed: the first forty seconds after the page is opened,
\* and the same forty seconds a day later.
MaxElapsed == 4 * 10 * 1000
Followed(t) ==
    /\ t - StartNow <= SESSION_DURATION_MS + MaxElapsed
    /\ (t - StartNow) % SESSION_DURATION_MS <= MaxElapsed

InitAuth == InitStore

\* What App renders: the spinner, Login, or the page selected.
Shown ==
    IF app.isLoading THEN "loading"
    ELSE IF ~app.isAuthenticated THEN "login"
    ELSE app.currentPage

\* Login after it is mounted and its effects have run: isFirstTime from
\* isPasswordSet(), isLocked from checkLockout().
LoginMounted(status) ==
    [mounted |-> TRUE, isFirstTime |-> ~isPasswordSet(passwordHash),
     isLocked |-> status.isLocked, isLoading |-> FALSE, password |-> NoPassword]

\* App renders Login: Login is mounted and its effects run.
MountLogin ==
    LET status == checkLockout(loginAttempts, dateNow)
    IN  /\ login' = LoginMounted(status)
        /\ loginAttempts' = status.stored

AuthStep ==
    UNCHANGED <<tz, holidayCache, calls, inflight, fetchCount, failures, lastFetch,
                dayuseData, targetDate, prediction, lastSync, storeVars, dashVars,
                reportVars, importVars, lifeVars>>

\* App is mounted: checkAuth runs, then the effects of the component App
\* renders (Login, or Dashboard, whose effect calls refreshSession).
AppMount ==
    LET s == getSession(session, dateNow)
    IN  /\ app.isLoading
        /\ app' = [app EXCEPT !.isAuthenticated = ~IsNull(s), !.isLoading = FALSE]
        /\ IF ~IsNull(s)
           THEN /\ session' = refreshSession(s, dateNow)
                /\ UNCHANGED <<login, loginAttempts>>
           ELSE /\ session' = s
                /\ MountLogin
        /\ UNCHANGED <<dateNow, passwordHash, lastLogin>>
        /\ AuthStep

\* The page is reloaded: the components start again, local storage stays.
Reload ==
    /\ ~app.isLoading
    /\ app' = AppInitial
    /\ login' = NoLogin
    /\ UNCHANGED <<dateNow, passwordHash, loginAttempts, session, lastLogin>>
    /\ AuthStep

\* handleSetPassword: the form of the first visit is submitted.
HandleSetPassword(password, confirmPassword) ==
    /\ Shown = "login"
    /\ login.isFirstTime /\ ~login.isLocked /\ ~login.isLoading
    /\ IF Len(password) < 4 \/ password # confirmPassword
       THEN /\ lastLogin' = [event |-> "invalid"]
            /\ UNCHANGED <<passwordHash, session, app, login>>
       ELSE /\ passwordHash' = hashPassword(password)
            /\ session' = refreshSession(createSession(dateNow), dateNow)
            /\ app' = [app EXCEPT !.isAuthenticated = TRUE]
            /\ login' = NoLogin
            /\ lastLogin' = [event |-> "passwordSet"]
    /\ UNCHANGED <<dateNow, loginAttempts>>
    /\ AuthStep

\* handleLogin up to the await: the lockout check, the empty password, and
\* the start of the verification.
HandleLogin(password) ==
    LET lockStatus == checkLockout(loginAttempts, dateNow)
    IN  /\ Shown = "login"
        /\ ~login.isFirstTime /\ ~login.isLocked /\ ~login.isLoading
        /\ loginAttempts' = lockStatus.stored
        /\ IF lockStatus.isLocked
           THEN /\ login' = [login EXCEPT !.isLocked = TRUE]
                /\ lastLogin' = [event |-> "locked"]
           ELSE IF password = NoPassword
           THEN /\ lastLogin' = [event |-> "empty"]
                /\ UNCHANGED login
           ELSE /\ login' = [login EXCEPT !.isLoading = TRUE, !.password = password]
                /\ lastLogin' = [event |-> "verifying"]
        /\ UNCHANGED <<dateNow, passwordHash, session, app>>
        /\ AuthStep

\* handleLogin after the await: verifyPassword has resolved.
VerifyResolves ==
    LET isValid == verifyPassword(login.password, passwordHash)
        result  == recordLoginFailure(loginAttempts, dateNow)
    IN  /\ Shown = "login"
        /\ login.isLoading
        /\ IF isValid
           THEN /\ loginAttempts' = resetLoginAttempts
                /\ session' = refreshSession(createSession(dateNow), dateNow)
                /\ app' = [app EXCEPT !.isAuthenticated = TRUE]
                /\ login' = NoLogin
                /\ lastLogin' = [event |-> "success"]
           ELSE /\ loginAttempts' = result.stored
                /\ login' = [login EXCEPT !.isLoading = FALSE,
                                          !.isLocked = @ \/ result.isLocked]
                /\ lastLogin' = [event |-> IF result.isLocked THEN "lockedOut"
                                                              ELSE "failure"]
                /\ UNCHANGED <<session, app>>
        /\ UNCHANGED <<dateNow, passwordHash>>
        /\ AuthStep

\* The interval of the lockout countdown fires.
LockoutTimer ==
    LET status == checkLockout(loginAttempts, dateNow)
    IN  /\ Shown = "login"
        /\ login.isLocked
        /\ loginAttempts' = status.stored
        /\ login' = [login EXCEPT !.isLocked = status.isLocked]
        /\ UNCHANGED <<dateNow, passwordHash, session, app, lastLogin>>
        /\ AuthStep

\* onNavigateToSettings.
NavigateToSettings ==
    /\ Shown = "dashboard"
    /\ app' = [app EXCEPT !.currentPage = "settings"]
    /\ UNCHANGED <<dateNow, passwordHash, loginAttempts, session, login, lastLogin>>
    /\ AuthStep

\* onNavigateBack: Dashboard is mounted again and its effect runs.
NavigateBack ==
    /\ Shown = "settings"
    /\ app' = [app EXCEPT !.currentPage = "dashboard"]
    /\ session' = refreshSession(session, dateNow)
    /\ UNCHANGED <<dateNow, passwordHash, loginAttempts, login, lastLogin>>
    /\ AuthStep

\* handleLogout, from the Settings page: App renders Login.
HandleLogout ==
    /\ Shown = "settings"
    /\ session' = clearSession
    /\ app' = [app EXCEPT !.isAuthenticated = FALSE, !.currentPage = "dashboard"]
    /\ MountLogin
    /\ UNCHANGED <<dateNow, passwordHash, lastLogin>>
    /\ AuthStep

\* Time passes.
TimePasses(delay) ==
    /\ Followed(dateNow + delay)
    /\ dateNow' = dateNow + delay
    /\ UNCHANGED <<passwordHash, loginAttempts, session, app, login, lastLogin>>
    /\ AuthStep

NextAuth ==
    \/ AppMount
    \/ Reload
    \/ \E password, confirmPassword \in Passwords :
           HandleSetPassword(password, confirmPassword)
    \/ \E password \in Passwords : HandleLogin(password)
    \/ VerifyResolves
    \/ LockoutTimer
    \/ NavigateToSettings
    \/ NavigateBack
    \/ HandleLogout
    \/ \E delay \in Delays : TimePasses(delay)

SpecAuth == InitAuth /\ [][NextAuth]_vars

\* The lock is on: a lockoutUntil is stored and has not been reached.
LockedOut ==
    /\ ~IsNull(loginAttempts)
    /\ loginAttempts.lockoutUntil # 0
    /\ dateNow < loginAttempts.lockoutUntil

\* A step that starts the verification of a submitted password.
VerificationStarts == login.mounted /\ login'.mounted /\ ~login.isLoading /\ login'.isLoading

\* A step that creates a session.
SessionCreated == ~IsNull(session') /\ (IsNull(session) \/ session'.createdAt # session.createdAt)

\* C25: login is limited to five failures followed by a lock of thirty
\* seconds: the fifth consecutive failure stores a lock that ends thirty
\* seconds later; while it is on, also after a reload, no verification is
\* in progress and no step starts one or creates a session; a submission
\* made when the thirty seconds have passed finds the counter reset.
C25_Lockout ==
    [][ /\ (~IsNull(loginAttempts') /\ loginAttempts' # loginAttempts) =>
               /\ loginAttempts'.attempts = getLoginAttempts(loginAttempts).attempts + 1
               /\ loginAttempts'.attempts <= MAX_LOGIN_ATTEMPTS
               /\ loginAttempts'.lockoutUntil =
                      IF loginAttempts'.attempts = MAX_LOGIN_ATTEMPTS
                      THEN dateNow + LOCKOUT_DURATION_MS ELSE 0
        /\ LockedOut =>
               /\ ~(Shown = "login" /\ login.isLoading)
               /\ ~VerificationStarts
               /\ ~SessionCreated
               /\ (dateNow' < loginAttempts.lockoutUntil => loginAttempts' = loginAttempts)
        /\ (~LockedOut /\ VerificationStarts) => getLoginAttempts(loginAttempts').lockoutUntil = 0
      ]_vars

\* The lock is on, Login was mounted again by a reload and shows the lock,
\* ten seconds or more after the fifth failure.
C25_Witness ==
    /\ LockedOut
    /\ loginAttempts.attempts = MAX_LOGIN_ATTEMPTS
    /\ dateNow > loginAttempts.lockoutUntil - LOCKOUT_DURATION_MS
    /\ Shown = "login"
    /\ login.isLocked
    /\ login.password = NoPassword
    /\ lastLogin.event = "lockedOut"

\* Logged in again after a lock has run out.
C25_LoginAgain ==
    /\ lastLogin.event = "success"
    /\ \E n \in 0..1 : session.createdAt >= StartNow + n * 10 * 1000 + LOCKOUT_DURATION_MS

\* C30 as stated: whenever App shows the Dashboard or the Settings page, a
\* session is stored and has not reached its expiry.
C30_AsStated ==
    app.isAuthenticated => (~IsNull(session) /\ dateNow < session.expiresAt)

\* What the code ensures: the step that makes App show the protected pages
\* leaves a session that has not expired, and after a logout Login is shown
\* and no session is stored.
C30_WhenShown ==
    [][ /\ (app'.isAuthenticated /\ ~app.isAuthenticated) =>
               (~IsNull(session') /\ dateNow' < session'.expiresAt)
        /\ (app.isAuthenticated /\ ~app'.isAuthenticated /\ ~app'.isLoading) =>
               IsNull(session')
      ]_vars

\* The Dashboard is shown a day after the login, the session expired.
C30_ShownAfterExpiry ==
    /\ Shown = "dashboard"
    /\ ~IsNull(session)
    /\ dateNow >= session.expiresAt

====
